---- MODULE Spec2Model ----
(***************************************************************************)
(* A model of minichain: the world state (crates/storage/src/state.rs),    *)
(* the transaction executor (crates/chain/src/executor.rs), the mempool    *)
(* (crates/chain/src/mempool.rs), the chain store                          *)
(* (crates/storage/src/chain.rs), PoA consensus and block validation       *)
(* (crates/consensus/src) and the orchestration in                         *)
(* crates/chain/src/blockchain.rs.                                         *)
(*                                                                         *)
(* Hashes are collision free: a hash is the tagged tuple of what was       *)
(* hashed.  A key pair is named by the address derived from its public     *)
(* key.  A u64 value v is written v when it is small and v - 2^64 when it  *)
(* lies just below 2^64 (two's complement), so that a wrapped subtraction  *)
(* and a saturated addition keep the values the machine computes.          *)
(***************************************************************************)
EXTENDS Integers, Sequences, FiniteSets, TLC

VARIABLES
    accounts,         \* StateManager: address -> Account
    overflow_checks,  \* build profile: TRUE = arithmetic overflow panics
    blocks,           \* ChainStore: block:hash:<hash> -> Block
    by_height,        \* ChainStore: block:height:<h> -> hash
    chain_head,       \* ChainStore: chain:head (Option<Hash>)
    chain_height,     \* ChainStore: chain:height (Option<u64>)
    mempool,          \* Blockchain.mempool
    authorities,      \* PoAConfig.authorities
    public_keys,      \* Authority.public_keys: address -> Option<PublicKey>
    now,              \* the system clock, in seconds
    calls,            \* the number of calls made so far
    last,             \* the last call: its input, the state before it, its result
    pool_log,         \* the calls made on the mempool: what was added, in order
    pending,          \* the store operation in progress: the writes still to do
    vm                \* the Vm being run (Option<Vm>)

vars == <<accounts, overflow_checks, blocks, by_height, chain_head, chain_height,
          mempool, authorities, public_keys, now, calls, last, pool_log,
          pending, vm>>

chainVars ==
    <<blocks, by_height, chain_head, chain_height, mempool, authorities,
      public_keys, now>>

auxVars == <<pool_log, pending, vm>>

-----------------------------------------------------------------------------
(* Bounds of the model. *)

MaxNonce == 1
MaxTxCalls == 2
MaxBlockTxs == 2
MaxBlockCalls == 1
MaxBlocks == 3
MaxTime == 1

(* Program constants. *)

TRANSFER_GAS == 21000
DEPLOY_BASE_GAS == 32000
DEPLOY_BYTE_GAS == 200
CALL_BYTE_GAS == 68
MIN_GAS == 21000
MAX_CLOCK_DRIFT == 30
MAX_TRANSACTIONS == 10000
MAX_PER_ACCOUNT == 100
MAX_BLOCK_SIZE == 1000

-----------------------------------------------------------------------------
(* Option<T>, Hash, Signature *)

None == <<>>
Some(x) == <<x>>
IsSome(o) == o # <<>>
Unwrap(o) == o[1]

ZERO == <<"zero">>

\* Keypair::sign_hash: a signature names the key that made it and the hash signed.
SignHash(key, h) == <<key, h>>
\* Signature::default(): made by no key.
DefaultSignature == <<0, ZERO>>
\* PublicKey::verify
VerifySig(public_key, h, sig) == sig[1] = public_key /\ sig[2] = h

-----------------------------------------------------------------------------
(* u64 arithmetic *)

\* a < b on u64
U64Lt(a, b) == IF (a < 0) = (b < 0) THEN a < b ELSE b < 0

\* u64::saturating_add
saturating_add(a, b) ==
    IF a < 0 /\ b < 0 THEN -1
    ELSE IF a < 0 \/ b < 0 THEN (IF a + b >= 0 THEN -1 ELSE a + b)
    ELSE a + b

\* u64::saturating_mul, on the small operands of the model
saturating_mul(a, b) == a * b

-----------------------------------------------------------------------------
(* Addresses, accounts, transactions *)

Users == {1, 2}

\* Transaction::contract_address: hash(sender || nonce)[..20], collision free
\* and disjoint from the addresses derived from keys.
contract_address(from, nonce) ==
    Cardinality(Users) + (from - 1) * (MaxNonce + 1) + nonce + 1

ContractAddrs == {contract_address(u, n) : u \in Users, n \in 0..MaxNonce}

Addrs == Users \cup ContractAddrs

\* Account::default()
DefaultAccount == [nonce |-> 0, balance |-> 0, is_contract |-> FALSE]

\* Account::new_user
new_user(balance) == [nonce |-> 0, balance |-> balance, is_contract |-> FALSE]

\* Transaction::new, signed by `signer` (0: left with Signature::default()).
signing_hash_of(nonce, from, to, value, data, gas_limit, gas_price) ==
    <<"utx", nonce, from, to, value, data, gas_limit, gas_price>>

Tx(nonce, from, to, value, data, gas_limit, gas_price, signer) ==
    [nonce |-> nonce, from |-> from, to |-> to, value |-> value, data |-> data,
     gas_limit |-> gas_limit, gas_price |-> gas_price,
     signature |-> IF signer = 0 THEN DefaultSignature
                   ELSE SignHash(signer,
                            signing_hash_of(nonce, from, to, value, data,
                                            gas_limit, gas_price))]

signing_hash(tx) ==
    signing_hash_of(tx.nonce, tx.from, tx.to, tx.value, tx.data, tx.gas_limit,
                    tx.gas_price)

\* Transaction::hash: over every field, the signature included
tx_hash(tx) ==
    <<"tx", tx.nonce, tx.from, tx.to, tx.value, tx.data, tx.gas_limit,
      tx.gas_price, tx.signature>>

\* Transaction::verify against the key whose address is the sender
tx_verify(tx, public_key) == VerifySig(public_key, signing_hash(tx), tx.signature)

is_deploy(tx) == tx.to = None
is_transfer(tx) == tx.to # None /\ tx.data = <<>>
is_call(tx) == tx.to # None /\ tx.data # <<>>

max_cost(tx) ==
    saturating_add(tx.value, saturating_mul(tx.gas_limit, tx.gas_price))

-----------------------------------------------------------------------------
(* StateManager, as functions of the account table *)

get_account(accts, a) == accts[a]

put_account(accts, a, account) == [accts EXCEPT ![a] = account]

add_balance(accts, a, amount) ==
    put_account(accts, a,
        [get_account(accts, a) EXCEPT !.balance = saturating_add(@, amount)])

sub_balance(accts, a, amount) ==
    IF U64Lt(get_account(accts, a).balance, amount)
    THEN [ok |-> FALSE, accounts |-> accts]
    ELSE [ok |-> TRUE,
          accounts |-> put_account(accts, a,
              [get_account(accts, a) EXCEPT !.balance = @ - amount])]

\* The credit that follows the debit of a transfer, unless the debit failed
credit_after(debit, to, amount) ==
    IF ~debit.ok THEN debit
    ELSE [ok |-> TRUE, accounts |-> add_balance(debit.accounts, to, amount)]

transfer(accts, from, to, amount) ==
    credit_after(sub_balance(accts, from, amount), to, amount)

increment_nonce(accts, a) ==
    put_account(accts, a,
        [get_account(accts, a) EXCEPT !.nonce = saturating_add(@, 1)])

-----------------------------------------------------------------------------
(* Executor *)

Receipt(tx, success, gas_used, contract, error) ==
    [tx_hash |-> tx_hash(tx), success |-> success, gas_used |-> gas_used,
     contract_address |-> contract, error |-> error]

\* What execute_transfer, execute_deploy and execute_call return: ok is FALSE
\* when a storage call returned an error (the `?` of the code)
RunResult(moved, success, gas_used, contract, error) ==
    [ok |-> moved.ok, accounts |-> moved.accounts, success |-> success,
     gas_used |-> gas_used, contract_address |-> contract, error |-> error]

\* if tx.value > 0 { state.transfer(from, to, value)? }
move_value(accts, from, to, value) ==
    IF value > 0 THEN transfer(accts, from, to, value)
    ELSE [ok |-> TRUE, accounts |-> accts]

\* Executor::execute_transfer
execute_transfer(accts, tx) ==
    RunResult(move_value(accts, tx.from, Unwrap(tx.to), tx.value),
              TRUE, TRANSFER_GAS, None, "")

\* Executor::execute_deploy
execute_deploy(accts, tx) ==
    RunResult([ok |-> TRUE,
               accounts |-> put_account(accts,
                               contract_address(tx.from, tx.nonce),
                               [nonce |-> 0, balance |-> tx.value,
                                is_contract |-> TRUE])],
              TRUE, DEPLOY_BASE_GAS + Len(tx.data) * DEPLOY_BYTE_GAS,
              Some(contract_address(tx.from, tx.nonce)), "")

\* Executor::execute_call
execute_call(accts, tx) ==
    IF ~get_account(accts, Unwrap(tx.to)).is_contract
    THEN RunResult([ok |-> TRUE, accounts |-> accts], FALSE, TRANSFER_GAS, None,
                   "contract not found or no code")
    ELSE RunResult(move_value(accts, tx.from, Unwrap(tx.to), tx.value),
                   TRUE, TRANSFER_GAS + Len(tx.data) * CALL_BYTE_GAS, None, "")

\* The pre-flight checks without the balance check
preflight_nonce_only(accts, tx) ==
    IF tx.nonce # get_account(accts, tx.from).nonce THEN "invalid nonce"
    ELSE "ok"

\* The checks execute_transaction makes before it writes: "ok", or the error
\* of the failed receipt.
preflight(accts, tx) ==
    IF tx.nonce # get_account(accts, tx.from).nonce THEN "invalid nonce"
    ELSE IF U64Lt(get_account(accts, tx.from).balance, max_cost(tx))
    THEN "insufficient balance"
    ELSE "ok"

\* The dispatch on the transaction type
dispatch(accts, tx) ==
    IF is_deploy(tx) THEN execute_deploy(accts, tx)
    ELSE IF is_call(tx) THEN execute_call(accts, tx)
    ELSE execute_transfer(accts, tx)

\* The refund of the unused gas and the receipt, after the transaction ran
refund_gas(tx, checks, ran) ==
    LET gas_cost == ran.gas_used * tx.gas_price
        refund == max_cost(tx) - gas_cost
    IN
    IF ~ran.ok
    THEN [outcome |-> "err", accounts |-> ran.accounts, receipt |-> None]
    ELSE IF U64Lt(max_cost(tx), gas_cost) /\ checks
    THEN [outcome |-> "panic", accounts |-> ran.accounts, receipt |-> None]
    ELSE [outcome |-> "ok",
          accounts |-> IF refund # 0
                       THEN add_balance(ran.accounts, tx.from, refund)
                       ELSE ran.accounts,
          receipt |-> Some(Receipt(tx, ran.success, ran.gas_used,
                                   ran.contract_address, ran.error))]

\* The execution after the nonce was incremented and max_cost debited
run_charged(tx, checks, charged) ==
    IF ~charged.ok
    THEN [outcome |-> "err", accounts |-> charged.accounts, receipt |-> None]
    ELSE refund_gas(tx, checks, dispatch(charged.accounts, tx))

\* Executor::execute_transaction.  outcome: "ok" (a receipt is returned), "err"
\* (an ExecutionError is returned), "panic" (the subtraction of the refund
\* overflowed in a build with overflow checks).  `checks` is that build setting.
execute_transaction(accts, tx, checks) ==
    IF preflight(accts, tx) # "ok"
    THEN [outcome |-> "ok", accounts |-> accts,
          receipt |-> Some(Receipt(tx, FALSE, 0, None, preflight(accts, tx)))]
    ELSE run_charged(tx, checks,
                     sub_balance(increment_nonce(accts, tx.from), tx.from,
                                 max_cost(tx)))

\* execute_block_from with every transaction executed on the accounts the
\* block started from
RECURSIVE execute_block_from_stale(_, _, _, _, _, _)
execute_block_from_stale(accts, txs, i, receipts, total_gas_used, checks) ==
    IF i > Len(txs)
    THEN [outcome |-> "ok", accounts |-> accts, receipts |-> receipts,
          total_gas_used |-> total_gas_used]
    ELSE LET r == execute_transaction(accts, txs[i], checks) IN
         IF r.outcome # "ok"
         THEN [outcome |-> r.outcome, accounts |-> r.accounts,
               receipts |-> receipts, total_gas_used |-> total_gas_used]
         ELSE execute_block_from_stale(accts, txs, i + 1,
                                       Append(receipts, Unwrap(r.receipt)),
                                       total_gas_used + Unwrap(r.receipt).gas_used,
                                       checks)

\* Executor::execute_block, from the transaction at index i on: the receipts so
\* far and the gas they sum to are carried along; an error or a panic of one
\* transaction ends the loop with the accounts as they are at that point.
RECURSIVE execute_block_from(_, _, _, _, _, _)
RECURSIVE after_transaction(_, _, _, _, _, _)
execute_block_from(accts, txs, i, receipts, total_gas_used, checks) ==
    IF i > Len(txs)
    THEN [outcome |-> "ok", accounts |-> accts, receipts |-> receipts,
          total_gas_used |-> total_gas_used]
    ELSE after_transaction(txs, i, receipts, total_gas_used, checks,
                           execute_transaction(accts, txs[i], checks))

\* The rest of the loop body, r being what execute_transaction returned
after_transaction(txs, i, receipts, total_gas_used, checks, r) ==
    IF r.outcome # "ok"
    THEN [outcome |-> r.outcome, accounts |-> r.accounts,
          receipts |-> receipts, total_gas_used |-> total_gas_used]
    ELSE execute_block_from(r.accounts, txs, i + 1,
                            Append(receipts, Unwrap(r.receipt)),
                            total_gas_used + Unwrap(r.receipt).gas_used,
                            checks)

execute_block(accts, txs, checks) ==
    execute_block_from(accts, txs, 1, <<>>, 0, checks)

-----------------------------------------------------------------------------
(* Result<(), E> *)

\* A sequence of checks each ended by `?`: the first error, or "ok"
FirstError(results) ==
    IF \A i \in 1..Len(results) : results[i] = "ok" THEN "ok"
    ELSE results[CHOOSE i \in 1..Len(results) :
                    /\ results[i] # "ok"
                    /\ \A j \in 1..(i - 1) : results[j] = "ok"]

-----------------------------------------------------------------------------
(* TransactionValidator *)

\* TransactionValidator::validate_transaction: "ok" or the ValidationError
validate_transaction(tx) ==
    LET min_gas == IF is_deploy(tx) THEN MIN_GAS
                   ELSE IF is_call(tx) THEN MIN_GAS + Len(tx.data) * CALL_BYTE_GAS
                   ELSE MIN_GAS
    IN IF tx.gas_price = 0 THEN "ZeroGasPrice"
       ELSE IF tx.gas_limit < min_gas THEN "GasLimitTooLow"
       ELSE IF is_deploy(tx) /\ tx.data = <<>> THEN "EmptyDeploymentData"
       ELSE "ok"

-----------------------------------------------------------------------------
(* Maps with the keys that were put *)

MapPut(m, k, v) == [x \in DOMAIN m \cup {k} |-> IF x = k THEN v ELSE m[x]]
MapRemove(m, k) == [x \in DOMAIN m \ {k} |-> m[x]]
MapGet(m, k) == IF k \in DOMAIN m THEN Some(m[k]) ELSE None

-----------------------------------------------------------------------------
(* Mempool *)

\* Mempool::with_config
NewMempool(max_transactions, max_per_account) ==
    [config |-> [max_transactions |-> max_transactions,
                 max_per_account |-> max_per_account],
     transactions |-> <<>>, by_sender |-> <<>>, tx_hashes |-> {}]

\* Mempool::contains
mempool_contains(mp, h) == h \in mp.tx_hashes

\* add without the check of the global capacity
mempool_add_uncapped(mp, tx) ==
    LET h == tx_hash(tx)
        entered == IF tx.from \in DOMAIN mp.by_sender THEN mp.by_sender
                   ELSE MapPut(mp.by_sender, tx.from, <<>>)
        sender_txs == entered[tx.from]
    IN
    IF mempool_contains(mp, h)
    THEN [result |-> "DuplicateTransaction", mempool |-> mp]
    ELSE IF Len(sender_txs) >= mp.config.max_per_account
    THEN [result |-> "MempoolFull", mempool |-> [mp EXCEPT !.by_sender = entered]]
    ELSE [result |-> "ok",
          mempool |-> [mp EXCEPT
              !.by_sender = MapPut(entered, tx.from, Append(sender_txs, h)),
              !.tx_hashes = @ \cup {h},
              !.transactions = MapPut(@, h, tx)]]

\* add that puts the hash at the front of the sender's queue
mempool_add_front(mp, tx) ==
    LET h == tx_hash(tx)
        entered == IF tx.from \in DOMAIN mp.by_sender THEN mp.by_sender
                   ELSE MapPut(mp.by_sender, tx.from, <<>>)
        sender_txs == entered[tx.from]
    IN
    IF mempool_contains(mp, h)
    THEN [result |-> "DuplicateTransaction", mempool |-> mp]
    ELSE IF Cardinality(DOMAIN mp.transactions) >= mp.config.max_transactions
    THEN [result |-> "MempoolFull", mempool |-> mp]
    ELSE IF Len(sender_txs) >= mp.config.max_per_account
    THEN [result |-> "MempoolFull", mempool |-> [mp EXCEPT !.by_sender = entered]]
    ELSE [result |-> "ok",
          mempool |-> [mp EXCEPT
              !.by_sender = MapPut(entered, tx.from, <<h>> \o sender_txs),
              !.tx_hashes = @ \cup {h},
              !.transactions = MapPut(@, h, tx)]]

\* Mempool::add: the result ("ok" or the MempoolError) and the mempool after
mempool_add(mp, tx) ==
    LET h == tx_hash(tx)
        \* by_sender.entry(tx.from).or_default() inserts an empty queue
        entered == IF tx.from \in DOMAIN mp.by_sender THEN mp.by_sender
                   ELSE MapPut(mp.by_sender, tx.from, <<>>)
        sender_txs == entered[tx.from]
    IN
    IF mempool_contains(mp, h)
    THEN [result |-> "DuplicateTransaction", mempool |-> mp]
    ELSE IF Cardinality(DOMAIN mp.transactions) >= mp.config.max_transactions
    THEN [result |-> "MempoolFull", mempool |-> mp]
    ELSE IF Len(sender_txs) >= mp.config.max_per_account
    THEN [result |-> "MempoolFull", mempool |-> [mp EXCEPT !.by_sender = entered]]
    ELSE [result |-> "ok",
          mempool |-> [mp EXCEPT
              !.by_sender = MapPut(entered, tx.from, Append(sender_txs, h)),
              !.tx_hashes = @ \cup {h},
              !.transactions = MapPut(@, h, tx)]]

\* VecDeque::retain(|x| x != h)
RECURSIVE Without(_, _)
Without(q, h) ==
    IF q = <<>> THEN <<>>
    ELSE IF Head(q) = h THEN Without(Tail(q), h)
    ELSE <<Head(q)>> \o Without(Tail(q), h)

\* Mempool::remove
mempool_remove(mp, h) ==
    IF h \notin DOMAIN mp.transactions
    THEN [result |-> "TransactionNotFound", mempool |-> mp]
    ELSE LET tx == mp.transactions[h]
             kept == IF tx.from \in DOMAIN mp.by_sender
                     THEN Without(mp.by_sender[tx.from], h) ELSE <<>>
         IN [result |-> "ok",
             mempool |-> [mp EXCEPT
                 !.transactions = MapRemove(@, h),
                 !.tx_hashes = @ \ {h},
                 !.by_sender = IF tx.from \notin DOMAIN @ THEN @
                               ELSE IF kept = <<>> THEN MapRemove(@, tx.from)
                               ELSE MapPut(@, tx.from, kept)]]

\* remove_batch that stops after the first hash
mempool_remove_first(mp, hashes) ==
    IF hashes = <<>> THEN mp ELSE mempool_remove(mp, Head(hashes)).mempool

\* Mempool::remove_batch
RECURSIVE mempool_remove_batch(_, _)
mempool_remove_batch(mp, hashes) ==
    IF hashes = <<>> THEN mp
    ELSE mempool_remove_batch(mempool_remove(mp, Head(hashes)).mempool,
                              Tail(hashes))

\* The transactions behind the hashes of a sender's queue that are pooled
\* (filter_map over transactions.get)
RECURSIVE pooled_of(_, _)
pooled_of(mp, hashes) ==
    IF hashes = <<>> THEN <<>>
    ELSE IF Head(hashes) \in DOMAIN mp.transactions
    THEN <<mp.transactions[Head(hashes)]>> \o pooled_of(mp, Tail(hashes))
    ELSE pooled_of(mp, Tail(hashes))

\* Mempool::get_by_sender
get_by_sender(mp, sender) ==
    IF sender \notin DOMAIN mp.by_sender THEN <<>>
    ELSE pooled_of(mp, mp.by_sender[sender])

\* Mempool::get_next_for_sender
get_next_for_sender(mp, sender) ==
    IF sender \notin DOMAIN mp.by_sender THEN None
    ELSE IF mp.by_sender[sender] = <<>> THEN None
    ELSE MapGet(mp.transactions, Head(mp.by_sender[sender]))

\* The orders in which HashMap::values can hand out the pooled transactions:
\* the iteration order of a HashMap is any order of its entries
values_orders(mp) ==
    {[i \in 1..Cardinality(DOMAIN mp.transactions) |-> mp.transactions[order[i]]] :
        order \in {o \in [1..Cardinality(DOMAIN mp.transactions) ->
                              DOMAIN mp.transactions] :
                       \A i, j \in DOMAIN o : i # j => o[i] # o[j]}}

\* Where a stable sort by descending gas price puts tx in a sorted vector:
\* behind every transaction that pays as much or more
RECURSIVE insert_by_gas_price(_, _)
insert_by_gas_price(sorted, tx) ==
    IF sorted = <<>> THEN <<tx>>
    ELSE IF Head(sorted).gas_price >= tx.gas_price
    THEN <<Head(sorted)>> \o insert_by_gas_price(Tail(sorted), tx)
    ELSE <<tx>> \o sorted

\* txs.sort_by(|a, b| b.gas_price.cmp(&a.gas_price)): a stable sort
RECURSIVE sort_by_gas_price(_)
sort_by_gas_price(txs) ==
    IF txs = <<>> THEN <<>>
    ELSE insert_by_gas_price(sort_by_gas_price(SubSeq(txs, 1, Len(txs) - 1)),
                             txs[Len(txs)])

\* Vec::truncate
truncate(v, limit) == IF limit >= Len(v) THEN v ELSE SubSeq(v, 1, limit)

\* Mempool::get_by_gas_price, when HashMap::values hands the transactions
\* out in the order `values`
get_by_gas_price(values, limit) == truncate(sort_by_gas_price(values), limit)

\* Mempool::get_pending
get_pending(values, limit) == get_by_gas_price(values, limit)

-----------------------------------------------------------------------------
(* Merkle root, blocks *)

\* A hash of two hashes that forgets which came first
hash_concat_unordered(a, b) == <<"node", {a, b}>>

\* hash_concat of two hashes
hash_concat(a, b) == <<"node", a, b>>

\* One level up: the hashes of the pairs, the last one paired with itself
\* when the level has an odd number of nodes
RECURSIVE merkle_level(_)
merkle_level(level) ==
    IF level = <<>> THEN <<>>
    ELSE IF Len(level) = 1 THEN <<hash_concat(level[1], level[1])>>
    ELSE <<hash_concat(level[1], level[2])>> \o merkle_level(Tail(Tail(level)))

\* merkle_root
RECURSIVE merkle_root(_)
merkle_root(hashes) ==
    IF hashes = <<>> THEN ZERO
    ELSE IF Len(hashes) = 1 THEN hashes[1]
    ELSE merkle_root(merkle_level(hashes))

tx_hashes_of(txs) == [i \in 1..Len(txs) |-> tx_hash(txs[i])]

\* BlockHeader::hash
header_hash(header) ==
    <<"hdr", header.height, header.timestamp, header.prev_hash,
      header.merkle_root, header.state_root, header.author, header.difficulty,
      header.nonce>>

\* Block::hash
block_hash(block) == header_hash(block.header)

\* Block::new at the time `timestamp`
NewBlock(height, prev_hash, transactions, state_root, author, timestamp) ==
    [header |-> [height |-> height, timestamp |-> timestamp,
                 prev_hash |-> prev_hash,
                 merkle_root |-> merkle_root(tx_hashes_of(transactions)),
                 state_root |-> state_root, author |-> author,
                 difficulty |-> 1, nonce |-> 0],
     transactions |-> transactions,
     signature |-> DefaultSignature]

\* Block::genesis at the time `timestamp`
GenesisBlock(authority, timestamp) ==
    [header |-> [height |-> 0, timestamp |-> timestamp, prev_hash |-> ZERO,
                 merkle_root |-> ZERO, state_root |-> ZERO,
                 author |-> authority, difficulty |-> 1, nonce |-> 0],
     transactions |-> <<>>,
     signature |-> DefaultSignature]

\* Block::signed
signed(block, key) ==
    [block EXCEPT !.signature = SignHash(key, block_hash(block))]

\* Block::is_genesis
is_genesis(block) == block.header.height = 0 /\ block.header.prev_hash = ZERO

\* Block::verify_signature
verify_signature(block, public_key) ==
    VerifySig(public_key, block_hash(block), block.signature)

\* Block::verify_merkle_root
verify_merkle_root(block) ==
    merkle_root(tx_hashes_of(block.transactions)) = block.header.merkle_root

-----------------------------------------------------------------------------
(* BlockValidator *)

HasDuplicates(hashes) ==
    \E i, j \in 1..Len(hashes) : i < j /\ hashes[i] = hashes[j]

\* BlockValidator::validate_block_structure
validate_block_structure(block) ==
    IF ~verify_merkle_root(block) THEN "InvalidMerkleRoot"
    ELSE IF HasDuplicates(tx_hashes_of(block.transactions))
    THEN "DuplicateTransaction"
    ELSE "ok"

\* BlockValidator::validate_block_extends_parent
validate_block_extends_parent(block, parent_hash, parent_height) ==
    IF block.header.height # parent_height + 1 THEN "InvalidHeight"
    ELSE IF block.header.prev_hash # parent_hash THEN "InvalidPrevHash"
    ELSE "ok"

\* BlockValidator::validate_block_transactions: the first error, or "ok"
RECURSIVE validate_block_transactions_from(_, _)
validate_block_transactions_from(txs, i) ==
    IF i > Len(txs) THEN "ok"
    ELSE IF validate_transaction(txs[i]) # "ok" THEN validate_transaction(txs[i])
    ELSE validate_block_transactions_from(txs, i + 1)

validate_block_transactions(block) ==
    validate_block_transactions_from(block.transactions, 1)

\* BlockValidator::validate_full
validate_full(block, parent_hash, parent_height) ==
    FirstError(<<validate_block_structure(block),
                 validate_block_extends_parent(block, parent_hash, parent_height),
                 validate_block_transactions(block)>>)

-----------------------------------------------------------------------------
(* PoA: PoAConfig and Authority *)

\* PoAConfig::is_authority
is_authority(auths, address) == \E i \in 1..Len(auths) : auths[i] = address

\* authority_at_height that takes the turn of the next height
authority_at_height_next(auths, height) ==
    IF auths = <<>> THEN None ELSE Some(auths[((height + 1) % Len(auths)) + 1])

\* PoAConfig::authority_at_height: Some(address), or None for NoAuthorities
authority_at_height(auths, height) ==
    IF auths = <<>> THEN None ELSE Some(auths[(height % Len(auths)) + 1])

\* Authority::verify_block_authority: the name of the error, or "ok"
verify_block_authority(auths, block) ==
    IF ~is_authority(auths, block.header.author) THEN "UnauthorizedAuthority"
    ELSE IF authority_at_height(auths, block.header.height) = None
    THEN "NoAuthorities"
    ELSE IF Unwrap(authority_at_height(auths, block.header.height))
                # block.header.author
    THEN "NotTurn"
    ELSE "ok"

\* Authority::verify_block_authority: the error with its fields, or "ok"
verify_block_authority_result(auths, block) ==
    CASE verify_block_authority(auths, block) = "UnauthorizedAuthority" ->
             [error |-> "UnauthorizedAuthority", address |-> block.header.author]
      [] verify_block_authority(auths, block) = "NotTurn" ->
             [error |-> "NotTurn",
              expected |-> Unwrap(authority_at_height(auths, block.header.height)),
              got |-> block.header.author]
      [] OTHER -> [error |-> verify_block_authority(auths, block)]

\* verify_block_signature that takes any signature once a key is registered
verify_block_signature_unverified(keys, block) ==
    IF MapGet(keys, block.header.author) = None THEN "UnauthorizedAuthority"
    ELSE "ok"

\* Authority::verify_block_signature
verify_block_signature(keys, block) ==
    IF MapGet(keys, block.header.author) = None THEN "UnauthorizedAuthority"
    ELSE IF ~verify_signature(block, keys[block.header.author])
    THEN "InvalidSignature"
    ELSE "ok"

\* verify_block_timestamp that takes a block as old as its parent
verify_block_timestamp_lenient(block, parent_timestamp, time) ==
    IF block.header.timestamp < parent_timestamp THEN "TimestampTooEarly"
    ELSE IF block.header.timestamp > time + MAX_CLOCK_DRIFT
    THEN "TimestampTooFuture"
    ELSE "ok"

\* Authority::verify_block_timestamp
verify_block_timestamp(block, parent_timestamp, time) ==
    IF block.header.timestamp <= parent_timestamp THEN "TimestampTooEarly"
    ELSE IF block.header.timestamp > time + MAX_CLOCK_DRIFT
    THEN "TimestampTooFuture"
    ELSE "ok"

\* Authority::verify_block, at the time `time`
verify_block(auths, keys, block, parent_timestamp, time) ==
    FirstError(<<verify_block_authority(auths, block),
                 verify_block_signature(keys, block),
                 verify_block_timestamp(block, parent_timestamp, time)>>)

-----------------------------------------------------------------------------
(* ChainStore, as functions of the stored keys *)

\* The chain keys of the store: blocks by hash, hashes by height, head, height
Store(blks, heights, head, height) ==
    [blocks |-> blks, by_height |-> heights, head |-> head, height |-> height]

\* One Storage::put on a chain key: the key written, and the hash, the
\* height and the block the key or the value is made of
StoreWrite(key, h, height, block) ==
    [key |-> key, hash |-> h, height |-> height, block |-> block]

\* The store after the write w
store_write(st, w) ==
    CASE w.key = "block:hash" ->
             [st EXCEPT !.blocks = MapPut(@, w.hash, Unwrap(w.block))]
      [] w.key = "block:height" ->
             [st EXCEPT !.by_height = MapPut(@, w.height, w.hash)]
      [] w.key = "chain:head" -> [st EXCEPT !.head = Some(w.hash)]
      [] w.key = "chain:height" -> [st EXCEPT !.height = Some(w.height)]

\* The store after the writes, first to last
RECURSIVE apply_writes(_, _)
apply_writes(st, writes) ==
    IF writes = <<>> THEN st
    ELSE apply_writes(store_write(st, Head(writes)), Tail(writes))

\* The writes of ChainStore::put_block: the block by its hash, then the hash
\* by the height
put_block_writes(block) ==
    <<StoreWrite("block:hash", block_hash(block), block.header.height, Some(block)),
      StoreWrite("block:height", block_hash(block), block.header.height, None)>>

\* The writes of ChainStore::set_head: the head, then the height
set_head_writes(h, height) ==
    <<StoreWrite("chain:head", h, height, None),
      StoreWrite("chain:height", h, height, None)>>

\* ChainStore::put_block
put_block(st, block) == apply_writes(st, put_block_writes(block))

\* ChainStore::set_head
set_head(st, h, height) == apply_writes(st, set_head_writes(h, height))

\* ChainStore::get_block_by_hash
get_block_by_hash(st, h) == MapGet(st.blocks, h)

\* ChainStore::get_height
get_height(st) == IF st.height = None THEN 0 ELSE Unwrap(st.height)

\* ChainStore::get_block_by_height
get_block_by_height(st, height) ==
    IF MapGet(st.by_height, height) = None THEN None
    ELSE get_block_by_hash(st, st.by_height[height])

\* ChainStore::is_initialized
is_initialized(st) == st.head # None

\* The checks of init_genesis without the one of is_initialized
init_genesis_check_height_only(st, genesis) ==
    IF genesis.header.height # 0 THEN "InvalidGenesis" ELSE "ok"

\* The checks of ChainStore::init_genesis
init_genesis_check(st, genesis) ==
    IF genesis.header.height # 0 THEN "InvalidGenesis"
    ELSE IF is_initialized(st) THEN "InvalidGenesis"
    ELSE "ok"

\* The writes of ChainStore::init_genesis: put_block, then set_head
init_genesis_writes(genesis) ==
    put_block_writes(genesis) \o set_head_writes(block_hash(genesis), 0)

\* ChainStore::init_genesis: the result and the store after
init_genesis(st, genesis) ==
    IF init_genesis_check(st, genesis) # "ok"
    THEN [result |-> init_genesis_check(st, genesis), store |-> st]
    ELSE [result |-> "ok", store |-> apply_writes(st, init_genesis_writes(genesis))]

\* The checks of ChainStore::append_block; both errors are InvalidGenesis
append_block_check(st, block) ==
    IF block.header.height # get_height(st) + 1 THEN "InvalidGenesis"
    ELSE IF st.head # None /\ block.header.prev_hash # Unwrap(st.head)
    THEN "InvalidGenesis"
    ELSE "ok"

\* The writes of ChainStore::append_block: put_block, then set_head
append_block_writes(block) ==
    put_block_writes(block)
        \o set_head_writes(block_hash(block), block.header.height)

\* ChainStore::append_block: the result and the store after
append_block(st, block) ==
    IF append_block_check(st, block) # "ok"
    THEN [result |-> append_block_check(st, block), store |-> st]
    ELSE [result |-> "ok", store |-> apply_writes(st, append_block_writes(block))]

-----------------------------------------------------------------------------
(* Blockchain *)

\* The parent validate_and_execute_block validates against
find_parent(st, block, time) ==
    IF is_genesis(block) THEN Some(GenesisBlock(block.header.author, time))
    ELSE get_block_by_hash(st, block.header.prev_hash)

\* The consensus and structure validation against the parent found
validate_against(auths, keys, block, time, found) ==
    IF found = None THEN "BlockNotFound"
    ELSE FirstError(<<IF is_genesis(block) THEN "ok"
                      ELSE verify_block(auths, keys, block,
                                        Unwrap(found).header.timestamp, time),
                      validate_full(block, block_hash(Unwrap(found)),
                                    Unwrap(found).header.height)>>)

\* What validate_and_execute_block returns once the executor has run
executed(ran) ==
    [result |-> IF ran.outcome = "err" THEN "Execution" ELSE ran.outcome,
     exec |-> ran]

\* The execution of a block found valid, or the error of the validation
execute_valid(accts, block, checks, verdict) ==
    IF verdict # "ok"
    THEN [result |-> verdict,
          exec |-> [outcome |-> "none", accounts |-> accts, receipts |-> <<>>,
                    total_gas_used |-> 0]]
    ELSE executed(execute_block(accts, block.transactions, checks))

\* Blockchain::validate_and_execute_block at the time `time`: the result
\* ("ok", the error, or "panic") and what the executor returned
validate_and_execute_block(st, accts, auths, keys, block, time, checks) ==
    execute_valid(accts, block, checks,
                  validate_against(auths, keys, block, time,
                                   find_parent(st, block, time)))

\* The writes of import_block with set_head before put_block
import_block_writes_head_first(block) ==
    set_head_writes(block_hash(block), block.header.height)
        \o put_block_writes(block)

\* The writes of Blockchain::import_block: put_block, then set_head
import_block_writes(block) ==
    put_block_writes(block)
        \o set_head_writes(block_hash(block), block.header.height)

\* put_block, set_head and remove_batch, unless validation or execution failed
commit_block(st, mp, block, checked) ==
    IF checked.result # "ok"
    THEN [result |-> checked.result, exec |-> checked.exec,
          accounts |-> checked.exec.accounts, store |-> st, mempool |-> mp]
    ELSE [result |-> "ok", exec |-> checked.exec,
          accounts |-> checked.exec.accounts,
          store |-> apply_writes(st, import_block_writes(block)),
          mempool |-> mempool_remove_batch(mp, tx_hashes_of(block.transactions))]

\* Blockchain::import_block at the time `time`: the result, what the executor
\* returned, and the accounts, store and mempool after
import_block(st, accts, mp, auths, keys, block, time, checks) ==
    commit_block(st, mp, block,
                 validate_and_execute_block(st, accts, auths, keys, block, time,
                                            checks))

\* A submit_transaction that adds to the mempool without validating
submit_transaction_unvalidated(mp, tx) == mempool_add(mp, tx)

\* Blockchain::submit_transaction: the result and the mempool after
submit_transaction(mp, tx) ==
    IF validate_transaction(tx) # "ok"
    THEN [result |-> validate_transaction(tx), mempool |-> mp]
    ELSE mempool_add(mp, tx)

-----------------------------------------------------------------------------
(* The record of the last call *)

NoCall ==
    [op |-> "none", tx |-> None, txs |-> <<>>, pre |-> None,
     outcome |-> "none", receipts |-> <<>>, total_gas_used |-> 0,
     block |-> None, pre_head |-> None, pre_pool |-> {},
     arg |-> None, returned |-> None]

\* Nothing was asked of the mempool yet: no pooled transaction, no add
\* attempted, no add rejected; only_adds holds while every call so far was an
\* add of a transaction not tried before
NoLog == [order |-> <<>>, attempted |-> {}, rejections |-> {}, only_adds |-> TRUE]

-----------------------------------------------------------------------------
(* Inputs *)

\* The account whose key nobody holds: the address user 1's first deployment
\* will get.
Precomputed == contract_address(1, 0)

Values == {0, 1000}
GasLimits == {MIN_GAS, 33000}

\* Transactions of user 1 (signed with its key or not signed) and transactions
\* that name Precomputed as their sender (not signed: nobody holds its key).
TxInputs ==
    {Tx(nonce, 1, to_data[1], value, to_data[2], gas_limit, 1, signer) :
        nonce \in 0..MaxNonce,
        to_data \in {<<None, <<1>>>>, <<Some(2), <<>>>>,
                     <<Some(Precomputed), <<>>>>, <<Some(Precomputed), <<1>>>>},
        value \in Values, gas_limit \in GasLimits, signer \in {0, 1}}
    \cup
    {Tx(nonce, Precomputed, to_data[1], value, to_data[2], gas_limit, 1, 0) :
        nonce \in 0..MaxNonce,
        to_data \in {<<Some(2), <<>>>>, <<Some(Precomputed), <<>>>>,
                     <<Some(Precomputed), <<1>>>>},
        value \in Values, gas_limit \in GasLimits}

-----------------------------------------------------------------------------
(* The executor on its own: SpecExec *)

\* Blockchain::new with the authorities 1 and 2: an empty store, an empty
\* mempool with the default limits, no registered key
InitChain ==
    /\ blocks = <<>>
    /\ by_height = <<>>
    /\ chain_head = None
    /\ chain_height = None
    /\ mempool = NewMempool(MAX_TRANSACTIONS, MAX_PER_ACCOUNT)
    /\ authorities = <<1, 2>>
    /\ public_keys = <<>>
    /\ now = 0

\* Accounts as StateManager::put_account and set_balance leave them.
InitAccounts ==
    \E b1 \in {22000, 100000}, bc \in {0, 100000} :
        accounts = [a \in Addrs |->
                       IF a = 1 THEN new_user(b1)
                       ELSE IF a = Precomputed THEN new_user(bc)
                       ELSE DefaultAccount]

InitExec ==
    /\ InitAccounts
    /\ overflow_checks \in BOOLEAN
    /\ InitChain
    /\ calls = 0
    /\ last = NoCall
    /\ pool_log = NoLog
    /\ pending = None
    /\ vm = None

ExecuteTransaction(tx) ==
    \E r \in {execute_transaction(accounts, tx, overflow_checks)} :
    /\ calls < MaxTxCalls
    /\ calls' = calls + 1
    /\ accounts' = r.accounts
    /\ last' = [NoCall EXCEPT !.op = "execute_transaction", !.tx = Some(tx),
                              !.pre = Some(accounts),
                              !.outcome = r.outcome,
                              !.receipts = IF r.outcome = "ok"
                                           THEN <<Unwrap(r.receipt)>> ELSE <<>>]
    /\ UNCHANGED <<overflow_checks, chainVars, auxVars>>

ExecTx == \E tx \in TxInputs : ExecuteTransaction(tx)

NextExec == ExecTx

SpecExec == InitExec /\ [][NextExec]_vars

-----------------------------------------------------------------------------
(* Blocks of transactions given to the executor: SpecBlock *)

\* Transfers of user 1 to user 2, two deployments of user 1 (one whose gas
\* limit covers the deployment, one with the least limit the validator
\* accepts) and a transfer in the name of Precomputed.
BlockTxInputs ==
    {Tx(0, 1, Some(2), 1000, <<>>, MIN_GAS, 1, 1),
     Tx(1, 1, Some(2), 1000, <<>>, MIN_GAS, 1, 1),
     Tx(0, 1, None, 0, <<1>>, 33000, 1, 1),
     Tx(1, 1, None, 0, <<1>>, MIN_GAS, 1, 1),
     Tx(0, Precomputed, Some(2), 1000, <<>>, MIN_GAS, 1, 0)}

SeqsUpTo(S, n) == UNION {[1..k -> S] : k \in 0..n}

InitBlock == InitExec

\* Executor::execute_block on a block with the transactions txs
ExecuteBlock(txs) ==
    \E r \in {execute_block(accounts, txs, overflow_checks)} :
    /\ calls < MaxBlockCalls
    /\ calls' = calls + 1
    /\ accounts' = r.accounts
    /\ last' = [NoCall EXCEPT !.op = "execute_block", !.txs = txs,
                              !.pre = Some(accounts),
                              !.outcome = r.outcome,
                              !.receipts = r.receipts,
                              !.total_gas_used = r.total_gas_used]
    /\ UNCHANGED <<overflow_checks, chainVars, auxVars>>

ExecBlock == \E txs \in SeqsUpTo(BlockTxInputs, MaxBlockTxs) : ExecuteBlock(txs)

NextBlock == ExecBlock

SpecBlock == InitBlock /\ [][NextBlock]_vars

-----------------------------------------------------------------------------
(* The chain after `minichain init`: Spec *)

\* Transactions submitted to the node and found in blocks: transfers of
\* users 1 and 2, and one the validator rejects (gas price 0).
TxA == Tx(0, 1, Some(2), 1000, <<>>, MIN_GAS, 1, 1)
TxB == Tx(0, 2, Some(1), 0, <<>>, MIN_GAS, 1, 2)
TxZeroPrice == Tx(0, 1, Some(2), 0, <<>>, MIN_GAS, 0, 1)

ChainTxInputs == {TxA, TxB}

\* The transaction lists of the blocks that are well formed
BlockBodies == {<<>>, <<TxA>>, <<TxA, TxB>>}

\* The block an authority builds on `parent` (Block::new, signed), one
\* second after it
BlockOn(parent, txs) ==
    LET height == parent.header.height + 1
        author == Unwrap(authority_at_height(authorities, height))
    IN signed(NewBlock(height, block_hash(parent), txs,
                       parent.header.state_root, author,
                       parent.header.timestamp + 1), author)

Faults ==
    {"height", "prev", "early", "future", "turn", "outsider", "unsigned",
     "merkle", "dup", "badtx", "genesis"}

\* The header of `good` with one thing wrong
FaultyHeader(good, fault) ==
    CASE fault = "height" -> [good.header EXCEPT !.height = @ + 2]
      [] fault = "prev" -> [good.header EXCEPT !.prev_hash = hash_concat(ZERO, ZERO)]
      [] fault = "early" -> [good.header EXCEPT !.timestamp = @ - 1]
      [] fault = "future" ->
             [good.header EXCEPT !.timestamp = now + MAX_CLOCK_DRIFT + 1]
      [] fault = "turn" ->
             [good.header EXCEPT !.author = IF @ = 1 THEN 2 ELSE 1]
      [] fault = "outsider" -> [good.header EXCEPT !.author = Precomputed]
      [] fault = "merkle" ->
             [good.header EXCEPT !.merkle_root = hash_concat(ZERO, ZERO)]
      [] fault = "genesis" -> GenesisBlock(good.header.author, now).header
      [] OTHER -> good.header

\* The transactions of `good` with one thing wrong
FaultyTransactions(good, fault) ==
    CASE fault = "dup" -> good.transactions \o good.transactions
      [] fault = "badtx" -> Append(good.transactions, TxZeroPrice)
      [] fault = "genesis" -> <<>>
      [] OTHER -> good.transactions

\* The block with that header and those transactions, the Merkle root made
\* to fit transactions that were changed, signed by its author or not signed
Resigned(header, transactions, fault) ==
    IF fault = "unsigned"
    THEN [header |-> header, transactions |-> transactions,
          signature |-> DefaultSignature]
    ELSE signed([header |-> IF fault \in {"dup", "badtx"}
                            THEN [header EXCEPT !.merkle_root =
                                     merkle_root(tx_hashes_of(transactions))]
                            ELSE header,
                 transactions |-> transactions,
                 signature |-> DefaultSignature], header.author)

\* The block `good` with one thing wrong
Faulty(good, fault) ==
    Resigned(FaultyHeader(good, fault), FaultyTransactions(good, fault), fault)

\* The state `minichain init` and `account mint` leave: the authorities'
\* keys registered, the genesis block of the first authority stored and
\* made the head, the users' balances set.
Init ==
    /\ \E b1 \in {22000, 100000} :
          accounts = [a \in Addrs |->
                         IF a = 1 THEN new_user(b1)
                         ELSE IF a = 2 THEN new_user(100000)
                         ELSE DefaultAccount]
    /\ overflow_checks \in BOOLEAN
    /\ authorities = <<1, 2>>
    /\ public_keys = [a \in {1, 2} |-> a]
    /\ now = 0
    /\ LET genesis == signed(GenesisBlock(1, 0), 1)
           st == init_genesis(Store(<<>>, <<>>, None, None), genesis).store
       IN /\ blocks = st.blocks
          /\ by_height = st.by_height
          /\ chain_head = st.head
          /\ chain_height = st.height
    /\ mempool = NewMempool(MAX_TRANSACTIONS, MAX_PER_ACCOUNT)
    /\ calls = 0
    /\ last = NoCall
    /\ pool_log = NoLog
    /\ pending = None
    /\ vm = None

CurrentStore == Store(blocks, by_height, chain_head, chain_height)

\* Blockchain::submit_transaction
SubmitTransaction(tx) ==
    \E r \in {submit_transaction(mempool, tx)} :
    /\ mempool' = r.mempool
    /\ last' = [NoCall EXCEPT !.op = "submit_transaction", !.tx = Some(tx),
                              !.outcome = r.result,
                              !.pre_pool = mempool.tx_hashes]
    /\ UNCHANGED <<accounts, overflow_checks, blocks, by_height, chain_head,
                   chain_height, authorities, public_keys, now, calls, auxVars>>

\* Blockchain::import_block
ImportBlock(block) ==
    \E r \in {import_block(CurrentStore, accounts, mempool, authorities,
                           public_keys, block, now, overflow_checks)} :
    /\ Cardinality(DOMAIN blocks) < MaxBlocks
    /\ accounts' = r.accounts
    /\ blocks' = r.store.blocks
    /\ by_height' = r.store.by_height
    /\ chain_head' = r.store.head
    /\ chain_height' = r.store.height
    /\ mempool' = r.mempool
    /\ last' = [NoCall EXCEPT !.op = "import_block",
                              !.block = IF r.result = "ok" THEN Some(block)
                                        ELSE None,
                              !.outcome = r.result,
                              !.pre_head = chain_head,
                              !.pre_pool = mempool.tx_hashes]
    /\ UNCHANGED <<overflow_checks, authorities, public_keys, now, calls,
                   auxVars>>

\* The clock
Tick ==
    /\ now < MaxTime
    /\ now' = now + 1
    /\ UNCHANGED <<accounts, overflow_checks, blocks, by_height, chain_head,
                   chain_height, mempool, authorities, public_keys, calls, last,
                   auxVars>>

Submit == \E tx \in ChainTxInputs \cup {TxZeroPrice} : SubmitTransaction(tx)

\* A well-formed block on any stored block
ImportGood ==
    \E h \in DOMAIN blocks, txs \in BlockBodies :
        ImportBlock(BlockOn(blocks[h], txs))

\* A block on the head with one thing wrong
ImportFaulty ==
    \E fault \in Faults :
        ImportBlock(Faulty(BlockOn(blocks[Unwrap(chain_head)], <<TxB>>), fault))

Next == Submit \/ ImportGood \/ ImportFaulty \/ Tick

Spec == Init /\ [][Next]_vars

-----------------------------------------------------------------------------
(* The mempool on its own: SpecPool *)

\* The limits a MempoolConfig is given
PoolCaps == {1, 2}

\* Three transactions of user 1 and one of user 2; TxP2 pays a gas price of
\* 2, the others 1
TxP1 == Tx(0, 1, Some(2), 1000, <<>>, MIN_GAS, 1, 1)
TxP2 == Tx(1, 1, Some(2), 1000, <<>>, MIN_GAS, 2, 1)
TxP3 == Tx(0, 1, Some(2), 0, <<>>, MIN_GAS, 1, 1)
TxQ1 == Tx(0, 2, Some(1), 0, <<>>, MIN_GAS, 1, 2)

PoolTxInputs == {TxP1, TxP2, TxP3, TxQ1}
PoolHashes == {tx_hash(tx) : tx \in PoolTxInputs}
PoolLimits == {0, 1, 3}

\* The log after add(tx) returned `result`
log_add(log, tx, result) ==
    IF log.only_adds /\ tx \notin log.attempted
    THEN [order |-> IF result = "ok" THEN Append(log.order, tx_hash(tx))
                    ELSE log.order,
          attempted |-> log.attempted \cup {tx},
          rejections |-> IF result = "ok" THEN log.rejections
                         ELSE log.rejections \cup {result},
          only_adds |-> TRUE]
    ELSE [order |-> IF result = "ok" THEN Append(log.order, tx_hash(tx))
                    ELSE log.order,
          attempted |-> {}, rejections |-> {}, only_adds |-> FALSE]

\* The log after the hashes were removed
RECURSIVE log_remove(_, _)
log_remove(log, hashes) ==
    IF hashes = <<>>
    THEN [log EXCEPT !.attempted = {}, !.rejections = {}, !.only_adds = FALSE]
    ELSE log_remove([log EXCEPT !.order = Without(@, Head(hashes))], Tail(hashes))

\* Mempool::with_config on its own: no chain, no account
InitPool ==
    /\ accounts = [a \in Addrs |-> DefaultAccount]
    /\ overflow_checks = FALSE
    /\ blocks = <<>>
    /\ by_height = <<>>
    /\ chain_head = None
    /\ chain_height = None
    /\ \E max_transactions \in PoolCaps, max_per_account \in PoolCaps :
          mempool = NewMempool(max_transactions, max_per_account)
    /\ authorities = <<>>
    /\ public_keys = <<>>
    /\ now = 0
    /\ calls = 0
    /\ last = NoCall
    /\ pool_log = NoLog
    /\ pending = None
    /\ vm = None

poolFrame ==
    <<accounts, overflow_checks, blocks, by_height, chain_head, chain_height,
      authorities, public_keys, now, calls, pending, vm>>

\* Mempool::add
PoolAdd(tx) ==
    \E r \in {mempool_add(mempool, tx)} :
    /\ mempool' = r.mempool
    /\ pool_log' = log_add(pool_log, tx, r.result)
    /\ last' = [NoCall EXCEPT !.op = "add", !.tx = Some(tx), !.outcome = r.result]
    /\ UNCHANGED poolFrame

\* Mempool::remove
PoolRemove(h) ==
    \E r \in {mempool_remove(mempool, h)} :
    /\ mempool' = r.mempool
    /\ pool_log' = log_remove(pool_log, <<h>>)
    /\ last' = [NoCall EXCEPT !.op = "remove", !.arg = Some(h),
                              !.outcome = r.result]
    /\ UNCHANGED poolFrame

\* Mempool::remove_batch
PoolRemoveBatch(hashes) ==
    /\ mempool' = mempool_remove_batch(mempool, hashes)
    /\ pool_log' = log_remove(pool_log, hashes)
    /\ last' = [NoCall EXCEPT !.op = "remove_batch", !.arg = Some(hashes),
                              !.outcome = "ok"]
    /\ UNCHANGED poolFrame

\* Mempool::get_by_sender
PoolGetBySender(sender) ==
    /\ last' = [NoCall EXCEPT !.op = "get_by_sender", !.arg = Some(sender),
                              !.returned = Some(get_by_sender(mempool, sender))]
    /\ UNCHANGED <<mempool, pool_log, poolFrame>>

\* Mempool::get_next_for_sender
PoolGetNextForSender(sender) ==
    /\ last' = [NoCall EXCEPT !.op = "get_next_for_sender", !.arg = Some(sender),
                              !.returned =
                                  Some(get_next_for_sender(mempool, sender))]
    /\ UNCHANGED <<mempool, pool_log, poolFrame>>

\* Mempool::get_by_gas_price, HashMap::values taking any of its orders
PoolGetByGasPrice(limit) ==
    \E values \in values_orders(mempool) :
    /\ last' = [NoCall EXCEPT !.op = "get_by_gas_price", !.arg = Some(limit),
                              !.returned = Some(get_by_gas_price(values, limit))]
    /\ UNCHANGED <<mempool, pool_log, poolFrame>>

Add == \E tx \in PoolTxInputs : PoolAdd(tx)
Remove == \E h \in PoolHashes : PoolRemove(h)
RemoveBatch == \E hashes \in SeqsUpTo(PoolHashes, 2) : PoolRemoveBatch(hashes)
GetBySender == \E sender \in Users : PoolGetBySender(sender)
GetNextForSender == \E sender \in Users : PoolGetNextForSender(sender)
GetByGasPrice == \E limit \in PoolLimits : PoolGetByGasPrice(limit)

NextPool ==
    Add \/ Remove \/ RemoveBatch \/ GetBySender \/ GetNextForSender
        \/ GetByGasPrice

SpecPool == InitPool /\ [][NextPool]_vars

-----------------------------------------------------------------------------
(* Claims about execute_transaction, under SpecExec *)

LastIsExecTx == last.op = "execute_transaction"
LastTx == Unwrap(last.tx)
LastPre == Unwrap(last.pre)
LastReceipt == last.receipts[1]
LastPassedPreflight == LastIsExecTx /\ preflight(LastPre, LastTx) = "ok"

\* The sum of gas_used * gas_price an executed transaction may be charged
Fee(tx, gas_used) == gas_used * tx.gas_price

(* C3: execute_transaction changes an account only for a transaction whose
   signature verifies against the sender's key: after the execution of a
   transaction with a missing or forged signature every account is as it
   was before. *)
C3_UnverifiedTxChangesNothing ==
    (LastIsExecTx /\ ~tx_verify(LastTx, LastTx.from)) => accounts = LastPre

(* C4: a transfer to another account with tx.nonce = sender.nonce and
   sender.balance >= value + gas_limit * gas_price returns a receipt with
   success and gas_used = 21000; the sender has paid value + 21000 * gas_price,
   the recipient has received value, the sender's nonce has grown by 1. *)
C4_FundedTransferSucceeds ==
    (/\ LastPassedPreflight
     /\ is_transfer(LastTx)
     /\ Unwrap(LastTx.to) # LastTx.from)
    => (/\ last.outcome = "ok"
        /\ LastReceipt.success
        /\ LastReceipt.gas_used = TRANSFER_GAS
        /\ accounts[LastTx.from].balance =
               LastPre[LastTx.from].balance
                   - (LastTx.value + Fee(LastTx, TRANSFER_GAS))
        /\ accounts[Unwrap(LastTx.to)].balance =
               LastPre[Unwrap(LastTx.to)].balance + LastTx.value
        /\ accounts[LastTx.from].nonce = LastPre[LastTx.from].nonce + 1)

(* C5: a transaction accepted by validate_transaction that passes the
   pre-flight checks uses at most gas_limit gas: the refund is computed
   without underflow and the sender pays at most gas_limit * gas_price in
   fees. *)
C5_GasUsedWithinLimit ==
    (LastPassedPreflight /\ validate_transaction(LastTx) = "ok")
    => (/\ last.outcome # "panic"
        /\ last.outcome = "ok" =>
              /\ LastReceipt.gas_used <= LastTx.gas_limit
              /\ ~U64Lt(LastPre[LastTx.from].balance,
                         accounts[LastTx.from].balance))

(* C6: an account's nonce never decreases, and it grows by exactly 1
   each time one of its transactions passes the pre-flight checks (so that
   an executed transaction does not pass the nonce check again). *)
C6_NonceMonotone ==
    LastIsExecTx =>
        \A a \in Addrs :
            accounts[a].nonce =
                IF a = LastTx.from /\ preflight(LastPre, LastTx) = "ok"
                THEN LastPre[a].nonce + 1
                ELSE LastPre[a].nonce

(* C7: a transaction whose nonce differs from the sender's, or whose
   sender's balance is below value + gas_limit * gas_price, gets a receipt
   with success = false and gas_used = 0, and no account changes. *)
C7_PreflightFailureChangesNothing ==
    (/\ LastIsExecTx
     /\ \/ LastTx.nonce # LastPre[LastTx.from].nonce
        \/ U64Lt(LastPre[LastTx.from].balance, max_cost(LastTx)))
    => (/\ last.outcome = "ok"
        /\ ~LastReceipt.success
        /\ LastReceipt.gas_used = 0
        /\ accounts = LastPre)

C7_Witness ==
    /\ LastIsExecTx
    /\ LastTx.nonce = LastPre[LastTx.from].nonce
    /\ U64Lt(LastPre[LastTx.from].balance, max_cost(LastTx))
    /\ LastPre[LastTx.from].balance > 0
    /\ LastReceipt.error = "insufficient balance"

-----------------------------------------------------------------------------
(* Claims about execute_block, under SpecBlock *)

LastIsExecBlock == last.op = "execute_block"

\* The accounts after the first k transactions of txs, each executed on the
\* accounts its predecessor left
RECURSIVE AccountsAfter(_, _, _, _)
AccountsAfter(accts, txs, k, checks) ==
    IF k = 0 THEN accts
    ELSE execute_transaction(AccountsAfter(accts, txs, k - 1, checks), txs[k],
                             checks).accounts

RECURSIVE SumGasUsed(_)
SumGasUsed(receipts) ==
    IF receipts = <<>> THEN 0
    ELSE Head(receipts).gas_used + SumGasUsed(Tail(receipts))

(* C8: execute_block never aborts because of a transaction's nonce or
   balance: it returns no error, and when it returns Ok every transaction
   of the block, those listed after a failed one included, has its
   receipt. *)
C8_BlockNeverAbortsOnBalance ==
    LastIsExecBlock =>
        /\ last.outcome # "err"
        /\ last.outcome = "ok" => Len(last.receipts) = Len(last.txs)

(* C9: when execute_block returns Ok it has executed the transactions in
   their listed order: there is one receipt per transaction, in that order,
   each the receipt of its transaction on the accounts the earlier
   transactions of the block left, and total_gas_used is the sum of the
   receipts' gas_used. *)
C9_BlockExecutesInOrder ==
    (LastIsExecBlock /\ last.outcome = "ok") =>
        /\ Len(last.receipts) = Len(last.txs)
        /\ \A i \in 1..Len(last.txs) :
              /\ last.receipts[i].tx_hash = tx_hash(last.txs[i])
              /\ Some(last.receipts[i]) =
                    execute_transaction(
                        AccountsAfter(LastPre, last.txs, i - 1, overflow_checks),
                        last.txs[i], overflow_checks).receipt
        /\ last.total_gas_used = SumGasUsed(last.receipts)
        /\ accounts =
              AccountsAfter(LastPre, last.txs, Len(last.txs), overflow_checks)

\* A block of two transactions of one sender: the second, with the next
\* nonce, succeeds only because it sees the nonce the first one wrote.
C9_Witness ==
    /\ LastIsExecBlock /\ last.outcome = "ok"
    /\ Len(last.txs) = 2
    /\ last.txs[1].from = last.txs[2].from
    /\ last.txs[2].nonce = LastPre[last.txs[2].from].nonce + 1
    /\ last.receipts[1].success /\ last.receipts[2].success
    /\ last.total_gas_used > TRANSFER_GAS

-----------------------------------------------------------------------------
(* Claims about import_block, under Spec *)

LastIsImport == last.op = "import_block"
LastImported == LastIsImport /\ last.outcome = "ok"
LastBlock == Unwrap(last.block)

\* The hashes of the transactions of the block last imported
LastBlockTxHashes == {tx_hash(LastBlock.transactions[i]) :
                         i \in 1..Len(LastBlock.transactions)}

(* C1: whenever import_block(B) returns success, the chain height is
   B.height, the chain head is hash(B), and B.prev_hash is the head as it was
   immediately before the import. *)
C1_ImportExtendsHead ==
    LastImported =>
        /\ get_height(CurrentStore) = LastBlock.header.height
        /\ chain_head = Some(block_hash(LastBlock))
        /\ Some(LastBlock.header.prev_hash) = last.pre_head

(* C2: import_block is atomic: whenever it returns an error, an error
   raised while executing one of the block's transactions included, every
   account, the head and height pointers, the stored blocks and the mempool
   are as they were before the call. *)
C2_FailedImportChangesNothing ==
    [][(last'.op = "import_block" /\ last'.outcome \notin {"ok", "panic"})
          => UNCHANGED <<accounts, blocks, by_height, chain_head, chain_height,
                         mempool>>]_vars

(* C10: after import_block succeeds for a block with the transactions T,
   the mempool contains no transaction of T, and every transaction that was
   in the mempool and is not in T is still there. *)
C10_ImportPrunesMempool ==
    LastImported =>
        /\ \A h \in LastBlockTxHashes : ~mempool_contains(mempool, h)
        /\ \A h \in last.pre_pool \ LastBlockTxHashes :
              /\ mempool_contains(mempool, h)
              /\ h \in DOMAIN mempool.transactions
              /\ \E i \in 1..Len(mempool.by_sender[mempool.transactions[h].from]) :
                     mempool.by_sender[mempool.transactions[h].from][i] = h

\* A block of two transactions was imported while its two transactions
\* were pending, or a block with one of two pending transactions.
C10_Witness ==
    /\ LastImported
    /\ \/ /\ Cardinality(LastBlockTxHashes) = 2
          /\ LastBlockTxHashes \subseteq last.pre_pool
       \/ /\ LastBlockTxHashes \cap last.pre_pool # {}
          /\ last.pre_pool \ LastBlockTxHashes # {}

-----------------------------------------------------------------------------
(* The verifier of an authority on its own: SpecPoA *)

MaxVerifyHeight == 3

\* The authority lists of a PoAConfig: one authority, two in both orders,
\* and a rotation of three turns
AuthorityLists == {<<1>>, <<2>>, <<1, 2>>, <<2, 1>>, <<1, 2, 1>>}

\* What register_public_key left: no key, the key of one user or of both, or
\* the key of user 2 registered for both
KeyMaps == {<<>>, 1 :> 1, 2 :> 2, 1 :> 1 @@ 2 :> 2, 1 :> 2 @@ 2 :> 2}

\* The timestamp of the parent a block is verified against
ParentTimestamp == 1

\* Blocks without transactions at any height, by a user or by somebody else,
\* not signed or signed by a user, as old as the parent, one second younger,
\* or at and beyond the drift the clock is allowed
VerifyBlockInputs ==
    {IF signer = 0
     THEN NewBlock(height, hash_concat(ZERO, ZERO), <<>>, ZERO, author, timestamp)
     ELSE signed(NewBlock(height, hash_concat(ZERO, ZERO), <<>>, ZERO, author,
                          timestamp), signer) :
        height \in 0..MaxVerifyHeight, author \in Users \cup {Precomputed},
        signer \in {0} \cup Users,
        timestamp \in {ParentTimestamp, ParentTimestamp + 1,
                       MAX_CLOCK_DRIFT, MAX_CLOCK_DRIFT + 1}}

\* Authority::new and register_public_key on their own: no chain, no account
InitPoA ==
    /\ accounts = [a \in Addrs |-> DefaultAccount]
    /\ overflow_checks = FALSE
    /\ blocks = <<>>
    /\ by_height = <<>>
    /\ chain_head = None
    /\ chain_height = None
    /\ mempool = NewMempool(MAX_TRANSACTIONS, MAX_PER_ACCOUNT)
    /\ authorities \in AuthorityLists
    /\ public_keys \in KeyMaps
    /\ now = 0
    /\ calls = 0
    /\ last = NoCall
    /\ pool_log = NoLog
    /\ pending = None
    /\ vm = None

poaFrame ==
    <<accounts, overflow_checks, blocks, by_height, chain_head, chain_height,
      mempool, authorities, public_keys, now, calls, pool_log, pending, vm>>

\* Authority::verify_block_authority
VerifyBlockAuthority(block) ==
    /\ last' = [NoCall EXCEPT !.op = "verify_block_authority",
                              !.block = Some(block),
                              !.outcome = verify_block_authority(authorities, block),
                              !.returned = Some(verify_block_authority_result(
                                                    authorities, block))]
    /\ UNCHANGED poaFrame

\* Authority::verify_block
VerifyBlock(block) ==
    /\ last' = [NoCall EXCEPT !.op = "verify_block", !.block = Some(block),
                              !.arg = Some(ParentTimestamp),
                              !.outcome = verify_block(authorities, public_keys,
                                                       block, ParentTimestamp, now)]
    /\ UNCHANGED poaFrame

VerifyAuthority == \E block \in VerifyBlockInputs : VerifyBlockAuthority(block)
Verify == \E block \in VerifyBlockInputs : VerifyBlock(block)

NextPoA == VerifyAuthority \/ Verify

SpecPoA == InitPoA /\ [][NextPoA]_vars

-----------------------------------------------------------------------------
(* The chain store written key by key: SpecStore *)

\* Genesis blocks of the two authorities
Genesis1 == signed(GenesisBlock(1, 0), 1)
Genesis2 == signed(GenesisBlock(2, 0), 2)

\* The blocks handed to init_genesis, append_block and import_block: the
\* genesis blocks, a block on a genesis block, and the blocks the scheduled
\* authority builds on a stored block
StoreBlockInputs ==
    {Genesis1, Genesis2, BlockOn(Genesis1, <<>>)}
        \cup {BlockOn(blocks[h], txs) : h \in DOMAIN blocks, txs \in {<<>>, <<TxA>>}}

\* Blockchain::new and register_authority for both authorities, the users'
\* balances set, no genesis block yet
InitStore ==
    /\ accounts = [a \in Addrs |-> IF a \in Users THEN new_user(100000)
                                   ELSE DefaultAccount]
    /\ overflow_checks = FALSE
    /\ blocks = <<>>
    /\ by_height = <<>>
    /\ chain_head = None
    /\ chain_height = None
    /\ mempool = NewMempool(MAX_TRANSACTIONS, MAX_PER_ACCOUNT)
    /\ authorities = <<1, 2>>
    /\ public_keys = [a \in {1, 2} |-> a]
    /\ now = 0
    /\ calls = 0
    /\ last = NoCall
    /\ pool_log = NoLog
    /\ pending = None
    /\ vm = None

\* The start of an operation on the store: its checks are made (and, for
\* import_block, the block is executed); when they pass, its writes are
\* still to do
StoreCall(op, block, verdict, writes, accts) ==
    /\ pending = None
    /\ Cardinality(DOMAIN blocks) < MaxBlocks
    /\ accounts' = accts
    /\ pending' = IF verdict = "ok"
                  THEN Some([op |-> op, block |-> block, writes |-> writes,
                             pre |-> CurrentStore])
                  ELSE None
    /\ last' = IF verdict = "ok" THEN last
               ELSE [NoCall EXCEPT !.op = op, !.block = Some(block),
                                   !.outcome = verdict,
                                   !.pre = Some(CurrentStore)]
    /\ UNCHANGED <<overflow_checks, blocks, by_height, chain_head, chain_height,
                   mempool, authorities, public_keys, now, calls, pool_log, vm>>

\* ChainStore::init_genesis up to its first write
CallInitGenesis(block) ==
    StoreCall("init_genesis", block, init_genesis_check(CurrentStore, block),
              init_genesis_writes(block), accounts)

\* ChainStore::append_block up to its first write
CallAppendBlock(block) ==
    StoreCall("append_block", block, append_block_check(CurrentStore, block),
              append_block_writes(block), accounts)

\* Blockchain::import_block up to its first write on a chain key
CallImportBlock(block) ==
    \E checked \in {validate_and_execute_block(CurrentStore, accounts,
                         authorities, public_keys, block, now, overflow_checks)} :
        StoreCall("import_block", block, checked.result,
                  import_block_writes(block), checked.exec.accounts)

\* The next Storage::put of the operation in progress
WriteStep ==
    /\ pending # None
    /\ Unwrap(pending).writes # <<>>
    /\ \E st \in {store_write(CurrentStore, Head(Unwrap(pending).writes))} :
          /\ blocks' = st.blocks
          /\ by_height' = st.by_height
          /\ chain_head' = st.head
          /\ chain_height' = st.height
    /\ pending' = Some([Unwrap(pending) EXCEPT !.writes = Tail(@)])
    /\ UNCHANGED <<accounts, overflow_checks, mempool, authorities, public_keys,
                   now, calls, last, pool_log, vm>>

\* The operation in progress returns Ok; import_block has removed the
\* transactions of the block from the mempool
Return ==
    /\ pending # None
    /\ Unwrap(pending).writes = <<>>
    /\ mempool' = IF Unwrap(pending).op = "import_block"
                  THEN mempool_remove_batch(mempool,
                           tx_hashes_of(Unwrap(pending).block.transactions))
                  ELSE mempool
    /\ last' = [NoCall EXCEPT !.op = Unwrap(pending).op,
                              !.block = Some(Unwrap(pending).block),
                              !.outcome = "ok",
                              !.pre = Some(Unwrap(pending).pre)]
    /\ pending' = None
    /\ UNCHANGED <<accounts, overflow_checks, blocks, by_height, chain_head,
                   chain_height, authorities, public_keys, now, calls, pool_log,
                   vm>>

InitGenesis == \E block \in StoreBlockInputs : CallInitGenesis(block)
AppendBlock == \E block \in StoreBlockInputs : CallAppendBlock(block)
Import == \E block \in StoreBlockInputs : CallImportBlock(block)

NextStore == InitGenesis \/ AppendBlock \/ Import \/ WriteStep \/ Return

SpecStore == InitStore /\ [][NextStore]_vars

-----------------------------------------------------------------------------
(* Claims about the mempool, under SpecPool *)

\* The pooled transactions in the order in which they were added
AddedOrder == [i \in DOMAIN pool_log.order |-> mempool.transactions[pool_log.order[i]]]

\* The subsequence of txs whose sender is s
RECURSIVE OfSender(_, _)
OfSender(txs, s) ==
    IF txs = <<>> THEN <<>>
    ELSE IF Head(txs).from = s THEN <<Head(txs)>> \o OfSender(Tail(txs), s)
    ELSE OfSender(Tail(txs), s)

PoolSize == Cardinality(DOMAIN mempool.transactions)

\* N distinct transactions were added to the empty mempool, N above the
\* global limit, and nothing else was asked of it
OverfilledByAdds ==
    /\ pool_log.only_adds
    /\ Cardinality(pool_log.attempted) > mempool.config.max_transactions

\* C11, as stated: after add was tried on N > max_transactions distinct
\* transactions, starting from the empty mempool, the mempool holds exactly
\* max_transactions of them and every rejected add returned MempoolFull.
C11_OverfillKeepsMaxTransactions ==
    OverfilledByAdds =>
        /\ PoolSize = mempool.config.max_transactions
        /\ \A h \in DOMAIN mempool.transactions :
               mempool.transactions[h] \in pool_log.attempted
        /\ pool_log.rejections \subseteq {"MempoolFull"}

\* No sender has more than max_per_account of the transactions tried
WithinPerAccount ==
    \A s \in Users :
        Cardinality({tx \in pool_log.attempted : tx.from = s})
            <= mempool.config.max_per_account

\* C11, amended: after add was tried on N > max_transactions distinct
\* transactions, starting from the empty mempool, the mempool holds at most
\* max_transactions of them, exactly max_transactions when no sender has more
\* than max_per_account of the N, and every rejected add returned MempoolFull.
C11_OverfillKeepsAtMostMaxTransactions ==
    OverfilledByAdds =>
        /\ PoolSize <= mempool.config.max_transactions
        /\ WithinPerAccount => PoolSize = mempool.config.max_transactions
        /\ \A h \in DOMAIN mempool.transactions :
               mempool.transactions[h] \in pool_log.attempted
        /\ pool_log.rejections \subseteq {"MempoolFull"}

\* Three transactions were tried on a mempool of two, none of them beyond its
\* sender's limit, and the last was rejected
C11_Witness ==
    /\ OverfilledByAdds
    /\ WithinPerAccount
    /\ mempool.config.max_transactions = 2
    /\ PoolSize = 2
    /\ last.op = "add" /\ last.outcome = "MempoolFull"

\* The place of the transaction tx in the order of the additions
AddedAt(tx) == CHOOSE i \in DOMAIN AddedOrder : AddedOrder[i] = tx

Pooled == {mempool.transactions[h] : h \in DOMAIN mempool.transactions}

\* r holds min(limit, len) pooled transactions, each once, in non-increasing
\* order of gas price, none of them priced below a transaction left out
BestByGasPrice(r, limit) ==
    /\ Len(r) = IF limit <= PoolSize THEN limit ELSE PoolSize
    /\ \A i \in DOMAIN r : r[i] \in Pooled
    /\ \A i, j \in DOMAIN r : i < j =>
           r[i] # r[j] /\ r[i].gas_price >= r[j].gas_price
    /\ \A i \in DOMAIN r : \A tx \in Pooled :
           (\A j \in DOMAIN r : r[j] # tx) => r[i].gas_price >= tx.gas_price

\* Transactions of r with the same gas price come in the order of their
\* additions
TiesInAddedOrder(r) ==
    \A i, j \in DOMAIN r :
        (i < j /\ r[i].gas_price = r[j].gas_price) => AddedAt(r[i]) < AddedAt(r[j])

\* C12: get_by_gas_price(limit) returns min(limit, len) pooled transactions in
\* non-increasing order of gas price, none of them priced below a transaction
\* left out, and transactions of equal gas price come in the order in which
\* they were added to the mempool.
C12_GasPriceOrderIsStable ==
    last.op = "get_by_gas_price" =>
        /\ BestByGasPrice(Unwrap(last.returned), Unwrap(last.arg))
        /\ TiesInAddedOrder(Unwrap(last.returned))

-----------------------------------------------------------------------------
(* Claims about the verifier of an authority, under SpecPoA *)

\* authorities[h mod N], the list counted from 0
Scheduled(h) == authorities[(h % Len(authorities)) + 1]

\* C14: with N >= 1 authorities, verify_block_authority accepts a block at
\* height h if and only if its author is authorities[h mod N]; an author that
\* is no authority is rejected with UnauthorizedAuthority, an authority out of
\* turn with NotTurn{expected = authorities[h mod N], got = author}.
C14_RoundRobinAuthority ==
    (last.op = "verify_block_authority" /\ Len(authorities) >= 1) =>
        LET header == Unwrap(last.block).header
            result == Unwrap(last.returned)
        IN /\ result.error = "ok" <=> header.author = Scheduled(header.height)
           /\ (\A i \in DOMAIN authorities : authorities[i] # header.author) =>
                  result = [error |-> "UnauthorizedAuthority",
                            address |-> header.author]
           /\ ((\E i \in DOMAIN authorities : authorities[i] = header.author)
                  /\ header.author # Scheduled(header.height)) =>
                  result = [error |-> "NotTurn",
                            expected |-> Scheduled(header.height),
                            got |-> header.author]

\* With the three turns 1, 2, 1, user 1 was refused at height 1, the turn of
\* user 2
C14_Witness ==
    /\ last.op = "verify_block_authority"
    /\ authorities = <<1, 2, 1>>
    /\ Unwrap(last.block).header.height = 1
    /\ Unwrap(last.returned) = [error |-> "NotTurn", expected |-> 2, got |-> 1]

\* verify_block was called on a block of the authority whose turn it is
VerifiedScheduled ==
    /\ last.op = "verify_block"
    /\ Len(authorities) >= 1
    /\ Unwrap(last.block).header.author =
           Scheduled(Unwrap(last.block).header.height)

NoKeyRegistered == Unwrap(last.block).header.author \notin DOMAIN public_keys

BadSignature ==
    /\ ~NoKeyRegistered
    /\ ~VerifySig(public_keys[Unwrap(last.block).header.author],
                  header_hash(Unwrap(last.block).header),
                  Unwrap(last.block).signature)

\* C16, as stated: verify_block rejects with InvalidSignature a block of the
\* scheduled authority when no public key is registered for its author, or
\* when its signature does not verify against the header hash under the
\* registered key.
C16_NoKeyOrBadSignatureIsInvalidSignature ==
    (VerifiedScheduled /\ (NoKeyRegistered \/ BadSignature)) =>
        last.outcome = "InvalidSignature"

\* C16, amended: verify_block rejects a block of the scheduled authority with
\* UnauthorizedAuthority when no public key is registered for its author, and
\* with InvalidSignature when its signature does not verify against the header
\* hash under the registered key.
C16_NoKeyIsUnauthorizedBadSignatureIsInvalid ==
    VerifiedScheduled =>
        /\ NoKeyRegistered => last.outcome = "UnauthorizedAuthority"
        /\ BadSignature => last.outcome = "InvalidSignature"

\* A block of user 1, in its turn and signed by user 1, was refused because
\* the key registered for user 1 is another one
C16_Witness ==
    /\ VerifiedScheduled
    /\ Unwrap(last.block).header.author = 1
    /\ Unwrap(last.block).signature[1] = 1
    /\ public_keys = (1 :> 2 @@ 2 :> 2)
    /\ last.outcome = "InvalidSignature"

-----------------------------------------------------------------------------
(* Claims about the timestamps of imported blocks, under Spec *)

\* The empty block the scheduled authority builds and signs on `parent`, its
\* timestamp set to ts
ChildAt(parent, ts) ==
    Resigned([BlockOn(parent, <<>>).header EXCEPT !.timestamp = ts], <<>>, "none")

\* Timestamps around the parent's and around the drift allowed to the clock
TimestampCases(parent) ==
    {parent.header.timestamp - 1, parent.header.timestamp,
     parent.header.timestamp + 1, now + MAX_CLOCK_DRIFT,
     now + MAX_CLOCK_DRIFT + 1} \cap Nat

\* What import_block returns for `block` in the current state
ImportResult(block) ==
    import_block(CurrentStore, accounts, mempool, authorities, public_keys,
                 block, now, overflow_checks).result

\* C15: a block that is not a genesis block and whose timestamp is not above
\* its parent's is rejected with TimestampTooEarly, a block whose timestamp is
\* above now + max_clock_drift is rejected with TimestampTooFuture; so every
\* block import_block stored is younger than the block it was built on:
\* timestamps grow strictly with the height along a chain.
C15_TimestampsGrowAlongChain ==
    /\ \A h \in DOMAIN blocks : \A ts \in TimestampCases(blocks[h]) :
           /\ ts <= blocks[h].header.timestamp =>
                  ImportResult(ChildAt(blocks[h], ts)) = "TimestampTooEarly"
           /\ ts > now + MAX_CLOCK_DRIFT =>
                  ImportResult(ChildAt(blocks[h], ts)) = "TimestampTooFuture"
    /\ \A h \in DOMAIN blocks :
           ~is_genesis(blocks[h]) =>
               /\ blocks[h].header.prev_hash \in DOMAIN blocks
               /\ blocks[blocks[h].header.prev_hash].header.height + 1
                      = blocks[h].header.height
               /\ blocks[blocks[h].header.prev_hash].header.timestamp
                      < blocks[h].header.timestamp

\* A block as old as the head was refused while the chain had a block on the
\* genesis block
C15_Witness ==
    /\ last.op = "import_block"
    /\ last.outcome = "TimestampTooEarly"
    /\ chain_height = Some(1)

-----------------------------------------------------------------------------
(* Claims about the chain store, under SpecStore *)

\* A call of op has returned and no other is in progress
Returned(op) == last.op = op /\ pending = None

\* Height 0, zero prev_hash, no transactions, zero Merkle root
WellFormedGenesis(block) ==
    /\ is_genesis(block)
    /\ block.transactions = <<>>
    /\ block.header.merkle_root = ZERO

\* C17: import_block applied to a well-formed genesis block (height 0, zero
\* prev_hash, no transactions) succeeds and leaves the block stored, head =
\* hash(genesis) and height = 0.
C17_GenesisImportSucceeds ==
    (Returned("import_block") /\ WellFormedGenesis(Unwrap(last.block))) =>
        /\ last.outcome = "ok"
        /\ block_hash(Unwrap(last.block)) \in DOMAIN blocks
        /\ chain_head = Some(block_hash(Unwrap(last.block)))
        /\ chain_height = Some(0)

\* C18: at every point between two writes of init_genesis, append_block and
\* import_block, chain:head, when set, names a block stored under its hash;
\* and once such an operation has returned, chain:height is the height of the
\* head block and block:height:<height> names the head.
C18_HeadNamesStoredBlock ==
    /\ chain_head # None => Unwrap(chain_head) \in DOMAIN blocks
    /\ (pending = None /\ chain_head # None) =>
           /\ chain_height = Some(blocks[Unwrap(chain_head)].header.height)
           /\ MapGet(by_height, Unwrap(chain_height)) = chain_head

\* import_block has written the new head of a longer chain and not yet its
\* height
C18_Witness ==
    /\ pending # None
    /\ Unwrap(pending).op = "import_block"
    /\ chain_head = Some(block_hash(Unwrap(pending).block))
    /\ chain_height = Some(0)
    /\ Unwrap(pending).block.header.height = 1

\* C20: init_genesis succeeds only for a block of height 0 on a store whose
\* head is unset, and then head = hash(genesis) and height = 0; for a block of
\* another height, or on a chain already initialized, it fails with
\* InvalidGenesis and leaves the stored blocks, the head and the height as
\* they were.
C20_InitGenesisOnlyOnce ==
    Returned("init_genesis") =>
        LET genesis == Unwrap(last.block)
            pre == Unwrap(last.pre)
        IN /\ last.outcome = "ok" =>
                  /\ genesis.header.height = 0
                  /\ pre.head = None
                  /\ chain_head = Some(block_hash(genesis))
                  /\ chain_height = Some(0)
                  /\ MapGet(blocks, block_hash(genesis)) = Some(genesis)
           /\ (genesis.header.height # 0 \/ pre.head # None) =>
                  /\ last.outcome = "InvalidGenesis"
                  /\ CurrentStore = pre

\* init_genesis was refused a genesis block on a chain that has one
C20_Witness ==
    /\ Returned("init_genesis")
    /\ Unwrap(last.block).header.height = 0
    /\ Unwrap(last.pre).head # None
    /\ Unwrap(last.pre).height = Some(0)
    /\ last.outcome = "InvalidGenesis"

-----------------------------------------------------------------------------
(* Claims about the stored chain, under Spec *)

\* C19: across import_block calls after genesis, block:height:h, once it
\* names a hash, never names another, no stored block is replaced, and the
\* height of the chain never decreases.
C19_BlocksAppendOnly ==
    [][/\ \A h \in DOMAIN by_height :
             h \in DOMAIN by_height' /\ by_height'[h] = by_height[h]
       /\ \A k \in DOMAIN blocks : k \in DOMAIN blocks' /\ blocks'[k] = blocks[k]
       /\ Unwrap(chain_height') >= Unwrap(chain_height)]_vars

-----------------------------------------------------------------------------
(* The virtual machine (crates/vm/src).                                    *)
(*                                                                         *)
(* A register holds a u64, written as its eight bytes, least significant   *)
(* first (u64::to_le_bytes); a u32 is written as four bytes.  Arithmetic   *)
(* is done on the bytes, so that every value of the 64 bits is a value of  *)
(* the model.  Gas amounts, the program counter and the sizes of the code  *)
(* and of the memory are small numbers and are written as such.            *)

\* The one element of a set of one element.  An operand is bound to its value
\* ({f(x) : x \in {operand}}) where the operation reads it byte after byte.
Only(S) == CHOOSE x \in S : TRUE

RECURSIVE le_bytes(_, _)
\* the k low bytes of the number n
le_bytes(n, k) ==
    IF k = 0 THEN <<>> ELSE <<n % 256>> \o le_bytes(n \div 256, k - 1)

\* a number as a u64
U64(n) == le_bytes(n, 8)

RECURSIVE le_value_from(_, _)
le_value_from(b, i) ==
    IF i > Len(b) THEN 0 ELSE b[i] + 256 * le_value_from(b, i + 1)

\* the number a few bytes stand for
le_value(b) == Only({le_value_from(x, 1) : x \in {b}})

\* `x as u32`, `x as u8` of a u64 and `x as usize`, `x as u64` of a u32
as_u32(x) == SubSeq(x, 1, 4)
as_u8(x) == x[1]
as_u64(x) == x \o <<0, 0, 0, 0>>

RECURSIVE add_carry(_, _, _)
add_carry(a, b, carry) ==
    IF a = <<>> THEN <<>>
    ELSE Only({<<t % 256>> \o add_carry(Tail(a), Tail(b), t \div 256) :
               t \in {a[1] + b[1] + carry}})

\* u64::wrapping_add
wrapping_add(a, b) == Only({add_carry(x, y, 0) : x \in {a}, y \in {b}})

\* !x
bit_not(a) == [i \in 1..Len(a) |-> 255 - a[i]]

\* u64::wrapping_sub
wrapping_sub(a, b) == Only({add_carry(x, y, 1) : x \in {a}, y \in {bit_not(b)}})

RECURSIVE column(_, _, _, _)
\* the products of bytes that meet in byte k of a product
column(a, b, k, i) ==
    IF i > k THEN 0 ELSE a[i] * b[k + 1 - i] + column(a, b, k, i + 1)

RECURSIVE mul_from(_, _, _, _)
mul_from(a, b, k, carry) ==
    IF k > Len(a) THEN <<>>
    ELSE Only({<<t % 256>> \o mul_from(a, b, k + 1, t \div 256) :
               t \in {column(a, b, k, 1) + carry}})

\* u64::wrapping_mul
wrapping_mul(a, b) == Only({mul_from(x, y, 1, 0) : x \in {a}, y \in {b}})

RECURSIVE lt_from(_, _, _)
lt_from(a, b, i) ==
    IF i = 0 THEN FALSE
    ELSE IF a[i] # b[i] THEN a[i] < b[i]
    ELSE lt_from(a, b, i - 1)

\* a < b, both of the same width
bytes_lt(a, b) == Only({lt_from(x, y, Len(x)) : x \in {a}, y \in {b}})

bit_of(op, x, y) ==
    IF op = "AND" THEN x * y
    ELSE IF op = "OR" THEN (IF x + y > 0 THEN 1 ELSE 0)
    ELSE (x + y) % 2

RECURSIVE byte_of(_, _, _, _)
byte_of(op, x, y, n) ==
    IF n = 0 THEN 0
    ELSE bit_of(op, x % 2, y % 2) + 2 * byte_of(op, x \div 2, y \div 2, n - 1)

\* a & b, a | b, a ^ b
bitwise(op, a, b) ==
    Only({[i \in 1..Len(x) |-> byte_of(op, x[i], y[i], 8)] :
          x \in {a}, y \in {b}})

\* a << n, by whole bytes and then by the bits left
shl_bytes(a, k) == [i \in 1..Len(a) |-> IF i > k THEN a[i - k] ELSE 0]

shl_bits(a, m) ==
    [i \in 1..Len(a) |->
        ((a[i] * (2 ^ m)) % 256)
        + (IF i > 1 THEN a[i - 1] \div (2 ^ (8 - m)) ELSE 0)]

shl(a, n) == Only({shl_bits(x, n % 8) : x \in {shl_bytes(a, n \div 8)}})

\* a >> n
shr_bytes(a, k) == [i \in 1..Len(a) |-> IF i + k <= Len(a) THEN a[i + k] ELSE 0]

shr_bits(a, m) ==
    [i \in 1..Len(a) |->
        (a[i] \div (2 ^ m))
        + (IF i < Len(a) THEN (a[i + 1] * (2 ^ (8 - m))) % 256 ELSE 0)]

shr(a, n) == Only({shr_bits(x, n % 8) : x \in {shr_bytes(a, n \div 8)}})

RECURSIVE div_digit_in(_, _, _, _)
\* The greatest k in lo..hi with d * k <= r
div_digit_in(r, d, lo, hi) ==
    IF lo = hi THEN lo
    ELSE Only({IF bytes_lt(r, wrapping_mul(d, le_bytes(mid, Len(d))))
               THEN div_digit_in(r, d, l, mid - 1)
               ELSE div_digit_in(r, d, mid, h) :
               l \in {lo}, h \in {hi}, mid \in {(lo + hi + 1) \div 2}})

\* The next digit of a long division: how many times d goes into r
div_digit(r, d) == div_digit_in(r, d, 0, 255)

RECURSIVE div_from(_, _, _, _, _)
\* One byte of the long division of n by d: r holds the next byte of n, and
\* k is the next digit of the quotient
div_byte(n, d, i, q, r) ==
    Only({div_from(n, d, i, <<k>> \o SubSeq(q, 1, 7),
                   wrapping_sub(r, wrapping_mul(d, le_bytes(k, Len(d))))) :
          k \in {div_digit(r, d)}})

\* The bytes i .. 1 of n are still to divide; q and r are the quotient and
\* the remainder of the bytes above them (r and d are ten bytes wide, so that
\* no product wraps)
div_from(n, d, i, q, r) ==
    IF i = 0 THEN <<q, SubSeq(r, 1, 8)>>
    ELSE Only({div_byte(n, d, i - 1, q1, r1) :
               q1 \in {q}, r1 \in {<<n[i]>> \o SubSeq(r, 1, 9)}})

\* a / b and a % b on u64, b not zero
u64_div(a, b) ==
    Only({div_from(n, d, 8, U64(0), le_bytes(0, 10))[1] :
          n \in {a}, d \in {b \o <<0, 0>>}})
u64_rem(a, b) ==
    Only({div_from(n, d, 8, U64(0), le_bytes(0, 10))[2] :
          n \in {a}, d \in {b \o <<0, 0>>}})

\* `b as u64` of a bool
bool_u64(b) == IF b THEN U64(1) ELSE U64(0)

-----------------------------------------------------------------------------
(* GasCosts and GasMeter (crates/vm/src/gas.rs) *)

GasCosts_ZERO == 0
GasCosts_BASE == 2
GasCosts_LOW == 3
GasCosts_MID == 5
GasCosts_MEMORY_READ == 3
GasCosts_MEMORY_WRITE == 3
GasCosts_SLOAD == 100
GasCosts_SSTORE_SET == 20000
GasCosts_SSTORE_RESET == 5000
GasCosts_JUMP == 8
GasCosts_CALL == 700

\* GasMeter::new
GasMeter(limit) == [remaining |-> limit, used |-> 0]

\* GasMeter::consume without the test of the remaining gas
consume_unchecked(gas, amount) ==
    [ok |-> TRUE,
     gas |-> [remaining |-> IF gas.remaining < amount THEN 0
                            ELSE gas.remaining - amount,
              used |-> gas.used + amount]]

\* GasMeter::consume
consume(gas, amount) ==
    IF gas.remaining < amount THEN [ok |-> FALSE, gas |-> gas]
    ELSE [ok |-> TRUE,
          gas |-> [remaining |-> gas.remaining - amount,
                   used |-> gas.used + amount]]

-----------------------------------------------------------------------------
(* Opcode (crates/vm/src/opcodes.rs) *)

Opcodes ==
    (0 :> "HALT") @@ (1 :> "NOP") @@ (2 :> "JUMP") @@ (3 :> "JUMPI")
    @@ (4 :> "CALL") @@ (5 :> "RET") @@ (15 :> "REVERT")
    @@ (16 :> "ADD") @@ (17 :> "SUB") @@ (18 :> "MUL") @@ (19 :> "DIV")
    @@ (20 :> "MOD") @@ (21 :> "ADDI")
    @@ (32 :> "AND") @@ (33 :> "OR") @@ (34 :> "XOR") @@ (35 :> "NOT")
    @@ (36 :> "SHL") @@ (37 :> "SHR")
    @@ (48 :> "EQ") @@ (49 :> "NE") @@ (50 :> "LT") @@ (51 :> "GT")
    @@ (52 :> "LE") @@ (53 :> "GE") @@ (54 :> "ISZERO")
    @@ (64 :> "LOAD8") @@ (65 :> "LOAD64") @@ (66 :> "STORE8")
    @@ (67 :> "STORE64") @@ (68 :> "MSIZE") @@ (69 :> "MCOPY")
    @@ (80 :> "SLOAD") @@ (81 :> "SSTORE")
    @@ (112 :> "LOADI") @@ (113 :> "MOV")
    @@ (128 :> "CALLER") @@ (129 :> "CALLVALUE") @@ (130 :> "ADDRESS")
    @@ (131 :> "BLOCKNUMBER") @@ (132 :> "TIMESTAMP") @@ (133 :> "GAS")
    @@ (240 :> "LOG")

\* Opcode::from_byte
from_byte(byte) == IF byte \in DOMAIN Opcodes THEN Some(Opcodes[byte]) ELSE None

\* Opcode::to_byte
to_byte(opcode) == CHOOSE byte \in DOMAIN Opcodes : Opcodes[byte] = opcode

\* The operands Vm::step decodes for an opcode
NoOperand == {"HALT", "NOP", "RET", "REVERT", "CALL"}
OperandsR ==
    {"NOT", "ISZERO", "LOADI", "JUMP", "LOG", "MSIZE", "CALLER", "CALLVALUE",
     "ADDRESS", "BLOCKNUMBER", "TIMESTAMP", "GAS"}
OperandsRR ==
    {"ADDI", "MOV", "JUMPI", "LOAD8", "LOAD64", "STORE8", "STORE64", "SLOAD",
     "SSTORE"}
OperandsRRR ==
    {"ADD", "SUB", "MUL", "DIV", "MOD", "AND", "OR", "XOR", "SHL", "SHR", "EQ",
     "NE", "LT", "GT", "LE", "GE", "MCOPY"}

\* The bytes after the opcode that Vm::step reads: decode_r and decode_rr read
\* one, decode_rrr two, decode_imm64 eight more, decode_imm32 four more
operand_bytes(opcode) ==
    IF opcode \in NoOperand THEN 0
    ELSE IF opcode = "LOADI" THEN 9
    ELSE IF opcode = "ADDI" THEN 5
    ELSE IF opcode \in OperandsRRR THEN 2
    ELSE 1

\* The gas Vm::step would charge if jumps were free
gas_cost_free_jumps(opcode) ==
    IF opcode \in {"HALT", "NOP", "RET", "REVERT", "JUMP", "JUMPI"}
    THEN GasCosts_ZERO
    ELSE IF opcode = "CALL" THEN GasCosts_CALL
    ELSE GasCosts_BASE

\* The gas Vm::step charges for an opcode (SSTORE: see execute_sstore_internal)
gas_cost(opcode) ==
    IF opcode \in {"HALT", "NOP", "RET", "REVERT"} THEN GasCosts_ZERO
    ELSE IF opcode = "MUL" THEN GasCosts_LOW
    ELSE IF opcode \in {"DIV", "MOD", "SHL", "SHR"} THEN GasCosts_MID
    ELSE IF opcode \in {"JUMP", "JUMPI"} THEN GasCosts_JUMP
    ELSE IF opcode = "CALL" THEN GasCosts_CALL
    ELSE IF opcode \in {"LOAD8", "LOAD64", "MCOPY"} THEN GasCosts_MEMORY_READ
    ELSE IF opcode \in {"STORE8", "STORE64"} THEN GasCosts_MEMORY_WRITE
    ELSE IF opcode = "SLOAD" THEN GasCosts_SLOAD
    ELSE GasCosts_BASE

-----------------------------------------------------------------------------
(* Registers and Memory (crates/vm/src/memory.rs).                         *)
(*                                                                         *)
(* Memory.data is written as its length and its bytes that are not zero.   *)

NUM_REGISTERS == 16

\* Registers::new
NewRegisters == [r \in 0..(NUM_REGISTERS - 1) |-> U64(0)]

\* Registers::get, Registers::set
registers_get(registers, r) == registers[r % NUM_REGISTERS]
registers_set(registers, r, value) ==
    [registers EXCEPT ![r % NUM_REGISTERS] = value]

\* Memory::new
NewMemory(max_size) == [len |-> 0, bytes |-> <<>>, max_size |-> max_size]

\* data[i]
data_at(memory, i) == IF i \in DOMAIN memory.bytes THEN memory.bytes[i] ELSE 0

\* Vec::resize(new_len, 0)
resize(memory, new_len) ==
    [memory EXCEPT !.len = new_len,
                   !.bytes = [i \in {j \in DOMAIN @ : j < new_len} |-> @[i]]]

\* data[at .. at + Len(values)] = values
write(memory, at, values) ==
    Only({[m EXCEPT
             !.bytes =
                 [i \in {j \in DOMAIN @ \cup a..(a + Len(vs) - 1) :
                           IF j \in a..(a + Len(vs) - 1)
                           THEN vs[j - a + 1] # 0 ELSE TRUE} |->
                     IF i \in a..(a + Len(vs) - 1) THEN vs[i - a + 1] ELSE @[i]]] :
          m \in {memory}, a \in {at}, vs \in {values}})

\* data[at .. at + length]
read(memory, at, length) ==
    Only({[i \in 1..length |-> data_at(m, a + i - 1)] :
          m \in {memory}, a \in {at}})

\* Memory::load8
load8(memory, offset) ==
    IF bytes_lt(as_u64(offset), U64(memory.len))
    THEN data_at(memory, le_value(offset)) ELSE 0

\* Memory::load64
load64(memory, offset) ==
    IF bytes_lt(U64(memory.len), wrapping_add(as_u64(offset), U64(8)))
    THEN U64(0) ELSE read(memory, le_value(offset), 8)

\* The write of a store: the data grows to hold it
store_at(memory, at, values) ==
    Only({[ok |-> TRUE,
           memory |-> write(IF a + Len(values) > m.len
                            THEN resize(m, a + Len(values)) ELSE m,
                            a, values)] :
          m \in {memory}, a \in {at}})

\* Memory::store8
store8(memory, offset, value) ==
    IF ~bytes_lt(as_u64(offset), U64(memory.max_size))
    THEN [ok |-> FALSE, memory |-> memory]
    ELSE store_at(memory, le_value(offset), <<value>>)

\* Memory::store64
store64(memory, offset, value) ==
    IF bytes_lt(U64(memory.max_size), wrapping_add(as_u64(offset), U64(8)))
    THEN [ok |-> FALSE, memory |-> memory]
    ELSE store_at(memory, le_value(offset), value)

\* The copy of Memory::mcopy: src_data is read after the data has grown
mcopy_grown(memory, dest, src, length) ==
    [ok |-> TRUE, memory |-> write(memory, dest, read(memory, src, length))]

\* Memory::mcopy from its second resize on
mcopy_resized(memory, dest, src, length) ==
    Only({mcopy_grown(IF dest + length > m.len
                      THEN resize(m, dest + length) ELSE m,
                      dest, src, length) : m \in {memory}})

\* Memory::mcopy after its test of the two ranges
mcopy_checked(memory, dest, src, length) ==
    Only({mcopy_resized(IF d >= m.len THEN resize(m, d) ELSE m, d, s, l) :
          m \in {memory}, d \in {dest}, s \in {src}, l \in {length}})

\* Memory::mcopy
mcopy(memory, dest, src, length) ==
    IF \/ bytes_lt(U64(memory.max_size),
                   wrapping_add(as_u64(dest), as_u64(length)))
       \/ bytes_lt(U64(memory.len), wrapping_add(as_u64(src), as_u64(length)))
    THEN [ok |-> FALSE, memory |-> memory]
    ELSE mcopy_checked(memory, le_value(dest), le_value(src), le_value(length))

\* Memory::size
memory_size(memory) == memory.len

-----------------------------------------------------------------------------
(* Vm (crates/vm/src/executor.rs) *)

MEMORY_MAX_SIZE == 1048576

\* [u8; 32] of zeros, u64::to_be_bytes, u64::from_be_bytes
Zero32 == [i \in 1..32 |-> 0]
to_be_bytes(x) == [i \in 1..Len(x) |-> x[Len(x) + 1 - i]]
from_be_bytes(b) == [i \in 1..Len(b) |-> b[Len(b) + 1 - i]]

\* The 32 bytes of a storage key or value: key[24..32] = x.to_be_bytes()
slot_bytes(x) == SubSeq(Zero32, 1, 24) \o to_be_bytes(x)

\* A StorageBackend that keeps what was stored, slot by slot
backend_sload(storage, key) ==
    IF key \in DOMAIN storage THEN storage[key] ELSE Zero32
backend_sstore(storage, key, value) == MapPut(storage, key, value)

\* Vm::new_with_context, followed by Vm::set_storage when storage is Some;
\* caller and address are the first eight bytes of the two addresses
NewVm(bytecode, gas_limit, caller, address, call_value, block_number, timestamp, storage) ==
    [registers |-> NewRegisters,
     memory |-> NewMemory(MEMORY_MAX_SIZE),
     pc |-> 0,
     gas |-> GasMeter(gas_limit),
     bytecode |-> bytecode,
     halted |-> FALSE,
     caller |-> caller,
     address |-> address,
     call_value |-> call_value,
     block_number |-> block_number,
     timestamp |-> timestamp,
     storage |-> storage,
     logs |-> <<>>]

\* bytecode[i]
code_at(v, i) == v.bytecode[i + 1]

\* Vm::decode_r, decode_rr, decode_rrr, decode_imm64, decode_imm32
decode_r(v) == (code_at(v, v.pc + 1) \div 16) % 16
decode_rr(v) == <<(code_at(v, v.pc + 1) \div 16) % 16, code_at(v, v.pc + 1) % 16>>
decode_rrr(v) ==
    <<(code_at(v, v.pc + 1) \div 16) % 16, code_at(v, v.pc + 1) % 16,
      (code_at(v, v.pc + 2) \div 16) % 16>>
decode_imm64(v) == SubSeq(v.bytecode, v.pc + 3, v.pc + 10)
decode_imm32(v) == SubSeq(v.bytecode, v.pc + 3, v.pc + 6)

\* self.registers.get(r)
reg(v, r) == registers_get(v.registers, r)

\* The results of Vm::step: Ok(()), Err(e), or a panic
StepOk(v) == [vm |-> v, result |-> "ok"]
StepErr(v, e) == [vm |-> v, result |-> e]

\* self.registers.set(dst, value); self.pc += size
set_and_advance(v, dst, value, size) ==
    StepOk([v EXCEPT !.registers = registers_set(@, dst, value),
                     !.pc = @ + size])

\* What the arms with three registers compute
alu(opcode, a, b) ==
    CASE opcode = "ADD" -> wrapping_add(a, b)
      [] opcode = "SUB" -> wrapping_sub(a, b)
      [] opcode = "MUL" -> wrapping_mul(a, b)
      [] opcode = "DIV" -> u64_div(a, b)
      [] opcode = "MOD" -> u64_rem(a, b)
      [] opcode \in {"AND", "OR", "XOR"} -> bitwise(opcode, a, b)
      [] opcode = "SHL" -> shl(a, b[1] % 64)
      [] opcode = "SHR" -> shr(a, b[1] % 64)
      [] opcode = "EQ" -> bool_u64(a = b)
      [] opcode = "NE" -> bool_u64(a # b)
      [] opcode = "LT" -> bool_u64(bytes_lt(a, b))
      [] opcode = "GT" -> bool_u64(bytes_lt(b, a))
      [] opcode = "LE" -> bool_u64(~bytes_lt(b, a))
      [] opcode = "GE" -> bool_u64(~bytes_lt(a, b))

\* The result of a store or of a copy: self.memory...?; self.pc += size
memory_written(v, written, size) ==
    IF ~written.ok THEN StepErr(v, "MemoryOverflow")
    ELSE StepOk([v EXCEPT !.memory = written.memory, !.pc = @ + size])

\* The arms that decode three registers, dividing without a look at the divisor
step_rrr_unchecked(v, opcode, d) ==
    IF opcode = "MCOPY"
    THEN memory_written(v, mcopy(v.memory, as_u32(reg(v, d[1])),
                                 as_u32(reg(v, d[2])), as_u32(reg(v, d[3]))), 3)
    ELSE set_and_advance(v, d[1], alu(opcode, reg(v, d[2]), reg(v, d[3])), 3)

\* The arms of Vm::step that decode three registers
step_rrr(v, opcode, d) ==
    IF opcode = "MCOPY"
    THEN memory_written(v, mcopy(v.memory, as_u32(reg(v, d[1])),
                                 as_u32(reg(v, d[2])), as_u32(reg(v, d[3]))), 3)
    ELSE IF opcode \in {"DIV", "MOD"} /\ reg(v, d[3]) = U64(0)
    THEN StepErr(v, "DivisionByZero")
    ELSE set_and_advance(v, d[1], alu(opcode, reg(v, d[2]), reg(v, d[3])), 3)

\* JUMP, and JUMPI when its condition holds
jump(v, addr) ==
    IF ~bytes_lt(addr, U64(Len(v.bytecode)))
    THEN StepErr(v, "InvalidJump")
    ELSE StepOk([v EXCEPT !.pc = le_value(addr)])

\* Vm::execute_sload after its charge
sload_value(v, d) ==
    IF v.storage = None THEN Zero32
    ELSE backend_sload(Unwrap(v.storage), slot_bytes(reg(v, d[2])))

\* The arms of Vm::step that decode two registers (SSTORE apart)
step_rr(v, opcode, d) ==
    CASE opcode = "ADDI" ->
            set_and_advance(v, d[1],
                wrapping_add(reg(v, d[2]), as_u64(decode_imm32(v))), 6)
      [] opcode = "MOV" -> set_and_advance(v, d[1], reg(v, d[2]), 2)
      [] opcode = "JUMPI" ->
            IF reg(v, d[1]) # U64(0) THEN jump(v, reg(v, d[2]))
            ELSE StepOk([v EXCEPT !.pc = @ + 2])
      [] opcode = "LOAD8" ->
            set_and_advance(v, d[1],
                U64(load8(v.memory, as_u32(reg(v, d[2])))), 2)
      [] opcode = "LOAD64" ->
            set_and_advance(v, d[1], load64(v.memory, as_u32(reg(v, d[2]))), 2)
      [] opcode = "STORE8" ->
            memory_written(v, store8(v.memory, as_u32(reg(v, d[1])),
                                     as_u8(reg(v, d[2]))), 2)
      [] opcode = "STORE64" ->
            memory_written(v, store64(v.memory, as_u32(reg(v, d[1])),
                                      reg(v, d[2])), 2)
      [] opcode = "SLOAD" ->
            set_and_advance(v, d[1],
                from_be_bytes(SubSeq(sload_value(v, d), 25, 32)), 2)

\* The arms of Vm::step that decode one register
step_r(v, opcode, dst) ==
    CASE opcode = "NOT" -> set_and_advance(v, dst, bit_not(reg(v, dst)), 2)
      [] opcode = "ISZERO" ->
            set_and_advance(v, dst, bool_u64(reg(v, dst) = U64(0)), 2)
      [] opcode = "LOADI" -> set_and_advance(v, dst, decode_imm64(v), 10)
      [] opcode = "JUMP" -> jump(v, reg(v, dst))
      [] opcode = "LOG" ->
            StepOk([v EXCEPT !.logs = Append(@, reg(v, dst)), !.pc = @ + 2])
      [] opcode = "MSIZE" ->
            set_and_advance(v, dst, U64(memory_size(v.memory)), 2)
      [] opcode = "CALLER" -> set_and_advance(v, dst, v.caller, 2)
      [] opcode = "CALLVALUE" -> set_and_advance(v, dst, v.call_value, 2)
      [] opcode = "ADDRESS" -> set_and_advance(v, dst, v.address, 2)
      [] opcode = "BLOCKNUMBER" -> set_and_advance(v, dst, v.block_number, 2)
      [] opcode = "TIMESTAMP" -> set_and_advance(v, dst, v.timestamp, 2)
      [] opcode = "GAS" -> set_and_advance(v, dst, U64(v.gas.remaining), 2)

\* The arms of Vm::step that decode no operand
step_plain(v, opcode) ==
    CASE opcode = "HALT" -> StepOk([v EXCEPT !.halted = TRUE])
      [] opcode = "NOP" -> StepOk([v EXCEPT !.pc = @ + 1])
      [] opcode = "RET" -> StepOk([v EXCEPT !.halted = TRUE, !.pc = @ + 1])
      [] opcode = "REVERT" ->
            StepErr([v EXCEPT !.halted = TRUE, !.pc = @ + 1], "Reverted")
      [] opcode = "CALL" -> StepOk([v EXCEPT !.pc = @ + 1])

\* An operand of the instruction at pc lies beyond the end of the code: the
\* index is out of bounds and the thread panics
truncated(v, opcode) == v.pc + operand_bytes(opcode) >= Len(v.bytecode)

\* Vm::step from the decoding of the operands on
step_decoded(v, opcode) ==
    IF truncated(v, opcode) THEN StepErr(v, "panic")
    ELSE IF opcode \in NoOperand THEN step_plain(v, opcode)
    ELSE IF opcode \in OperandsRRR THEN step_rrr(v, opcode, decode_rrr(v))
    ELSE IF opcode \in OperandsRR THEN step_rr(v, opcode, decode_rr(v))
    ELSE step_r(v, opcode, decode_r(v))

\* Vm::step after self.gas.consume(cost)?
step_charged(v, opcode, charged) ==
    Only({IF ~charged.ok THEN StepErr(w, "OutOfGas") ELSE step_decoded(w, opcode) :
          w \in {[v EXCEPT !.gas = charged.gas]}})

\* An SSTORE that costs the same whatever the slot holds
sstore_cost_flat(v, key) == GasCosts_SSTORE_SET

\* The cost Vm::execute_sstore_internal computes for the slot
sstore_cost(v, key) ==
    IF v.storage = None THEN GasCosts_SSTORE_SET
    ELSE IF backend_sload(Unwrap(v.storage), key) = Zero32
    THEN GasCosts_SSTORE_SET
    ELSE GasCosts_SSTORE_RESET

\* Vm::execute_sstore_internal after its charge
sstore_charged(v, d, charged) ==
    IF ~charged.ok THEN StepErr([v EXCEPT !.gas = charged.gas], "OutOfGas")
    ELSE StepOk([v EXCEPT
            !.gas = charged.gas,
            !.storage = IF @ = None THEN None
                        ELSE Some(backend_sstore(Unwrap(@),
                                                 slot_bytes(reg(v, d[1])),
                                                 slot_bytes(reg(v, d[2])))),
            !.pc = @ + 2])

\* Vm::execute_sstore_internal
execute_sstore_internal(v) ==
    IF truncated(v, "SSTORE") THEN StepErr(v, "panic")
    ELSE sstore_charged(v, decode_rr(v),
             consume(v.gas, sstore_cost(v, slot_bytes(reg(v, decode_rr(v)[1])))))

\* Vm::step after the fetch
step_opcode(v, opcode) ==
    IF opcode = None THEN StepErr(v, "InvalidOpcode")
    ELSE IF Unwrap(opcode) = "SSTORE" THEN execute_sstore_internal(v)
    ELSE step_charged(v, Unwrap(opcode),
                      consume(v.gas, gas_cost(Unwrap(opcode))))

\* Vm::step
step(v) == step_opcode(v, from_byte(code_at(v, v.pc)))

\* The condition of the loop of Vm::run
running(v) == ~v.halted /\ v.pc < Len(v.bytecode)

\* An ExecutionResult that reports success however the loop ended
ExecutionResult_success(v) ==
    [success |-> TRUE, gas_used |-> v.gas.used, return_data |-> <<>>,
     logs |-> v.logs]

\* ExecutionResult, as Vm::run builds it when its loop ends
ExecutionResult(v) ==
    [success |-> v.halted, gas_used |-> v.gas.used, return_data |-> <<>>,
     logs |-> v.logs]

-----------------------------------------------------------------------------
(* Runs of the virtual machine: SpecVm *)

MaxGasLimit == 25200

\* Instructions as bytes
Op(opcode) == <<to_byte(opcode)>>
OpR(opcode, r) == <<to_byte(opcode), r * 16>>
OpRR(opcode, r1, r2) == <<to_byte(opcode), r1 * 16 + r2>>
OpRRR(opcode, r1, r2, r3) == <<to_byte(opcode), r1 * 16 + r2, r3 * 16>>
OpLoadI(r, value) == OpR("LOADI", r) \o value

\* 2^32, 2^32 + 8 and 2^64 - 1
Pow32 == <<0, 0, 0, 0, 1, 0, 0, 0>>
Pow32Plus8 == <<8, 0, 0, 0, 1, 0, 0, 0>>
U64Max == [i \in 1..8 |-> 255]

\* R0 = a; R1 = b; op R2, R0, R1; LOG R2; HALT
Binary(opcode, a, b) ==
    OpLoadI(0, a) \o OpLoadI(1, b) \o OpRRR(opcode, 2, 0, 1) \o OpR("LOG", 2)
    \o Op("HALT")

\* R0 = address; R1 = value; store R0, R1; MSIZE R2; LOAD64 R3, R0; HALT
StoreAt(opcode, address, value) ==
    OpLoadI(0, address) \o OpLoadI(1, value) \o OpRR(opcode, 0, 1)
    \o OpR("MSIZE", 2) \o OpRR("LOAD64", 3, 0) \o Op("HALT")

\* Memory 0..16 = 1..16; MCOPY dest, src, length; LOAD64 R5, dest; HALT
Copy(dest, src, length) ==
    OpLoadI(0, U64(0)) \o OpLoadI(1, <<1, 2, 3, 4, 5, 6, 7, 8>>)
    \o OpRR("STORE64", 0, 1)
    \o OpLoadI(0, U64(8)) \o OpLoadI(1, <<9, 10, 11, 12, 13, 14, 15, 16>>)
    \o OpRR("STORE64", 0, 1)
    \o OpLoadI(2, dest) \o OpLoadI(3, src) \o OpLoadI(4, length)
    \o OpRRR("MCOPY", 2, 3, 4) \o OpRR("LOAD64", 5, 2) \o Op("HALT")

Programs ==
    {<<>>,
     Op("NOP") \o Op("NOP") \o Op("HALT"),
     Op("NOP") \o Op("NOP"),
     Op("NOP") \o Op("RET") \o Op("NOP"),
     Op("NOP") \o Op("REVERT") \o Op("HALT"),
     Op("NOP") \o <<255>> \o Op("HALT"),
     Op("CALL") \o Op("HALT"),
     \* a loop: R1 = 0; JUMP R1
     OpLoadI(1, U64(0)) \o OpR("JUMP", 1),
     \* the shortest loop: R1 = 10; JUMP R1, at address 10
     OpLoadI(1, U64(10)) \o OpR("JUMP", 1),
     \* a loop of JUMPI: R1 = 1; NOP; JUMPI R1, R0
     OpLoadI(1, U64(1)) \o Op("NOP") \o OpRR("JUMPI", 1, 0),
     \* JUMPI not taken, then a jump past the end of the code
     OpLoadI(1, U64(100)) \o OpRR("JUMPI", 0, 1) \o OpRR("MOV", 2, 1)
        \o OpRR("JUMPI", 2, 1) \o Op("HALT"),
     OpLoadI(1, Pow32) \o OpR("JUMP", 1) \o Op("HALT"),
     \* a jump over an instruction
     OpLoadI(1, U64(13)) \o OpR("JUMP", 1) \o Op("REVERT") \o Op("HALT"),
     \* instructions cut short by the end of the code
     OpR("LOADI", 1) \o <<1, 2, 3>>,
     Op("NOP") \o <<to_byte("ADD"), 1>>,
     <<to_byte("SSTORE")>>,
     Binary("DIV", U64(1000), U64(7)),
     Binary("DIV", U64(1000), U64(0)),
     Binary("MOD", U64Max, U64(0)),
     Binary("MOD", U64Max, Pow32),
     Binary("MUL", U64Max, Pow32Plus8),
     Binary("SUB", U64(7), Pow32Plus8),
     Binary("SHL", U64Max, U64(68)),
     Binary("XOR", U64Max, Pow32Plus8),
     Binary("LT", U64Max, Pow32Plus8),
     StoreAt("STORE8", U64(MEMORY_MAX_SIZE - 1), U64(300)),
     StoreAt("STORE8", U64(MEMORY_MAX_SIZE), U64(300)),
     StoreAt("STORE8", Pow32, U64(7)),
     StoreAt("STORE8", U64Max, U64(7)),
     StoreAt("STORE64", U64(MEMORY_MAX_SIZE - 8), U64Max),
     StoreAt("STORE64", U64(MEMORY_MAX_SIZE - 7), U64Max),
     StoreAt("STORE64", Pow32Plus8, U64Max),
     Copy(U64(4), U64(0), U64(8)),
     Copy(U64(0), U64(4), U64(8)),
     Copy(U64(20), U64(8), U64(0)),
     Copy(U64(2), U64(9), U64(8)),
     Copy(U64(MEMORY_MAX_SIZE - 7), U64(0), U64(8)),
     Copy(U64(MEMORY_MAX_SIZE - 8), U64(0), U64(8)),
     Copy(Pow32Plus8, U64(0), U64(8)),
     Copy(U64(0), Pow32Plus8, U64(8)),
     Copy(U64(0), U64(8), Pow32Plus8),
     \* storage, the context and the rest of the opcodes
     OpLoadI(1, U64(5)) \o OpRR("SSTORE", 0, 1) \o OpRR("SSTORE", 0, 1)
        \o OpRR("SLOAD", 2, 0) \o OpR("LOG", 2) \o Op("HALT"),
     OpR("CALLER", 0) \o OpR("CALLVALUE", 1) \o OpR("ADDRESS", 2)
        \o OpR("BLOCKNUMBER", 3) \o OpR("TIMESTAMP", 4) \o OpR("GAS", 5)
        \o OpR("NOT", 5) \o OpR("ISZERO", 6) \o OpRR("LOAD8", 7, 6)
        \o OpRR("ADDI", 8, 0) \o <<255, 255, 255, 255>> \o Op("RET")}

GasLimitInputs == {0, 1, 12, 40, MaxGasLimit}

\* Vm::new_with_context and Vm::set_storage have built a machine; run() starts
InitVm ==
    /\ accounts = [a \in Addrs |-> DefaultAccount]
    /\ overflow_checks = FALSE
    /\ blocks = <<>>
    /\ by_height = <<>>
    /\ chain_head = None
    /\ chain_height = None
    /\ mempool = NewMempool(MAX_TRANSACTIONS, MAX_PER_ACCOUNT)
    /\ authorities = <<>>
    /\ public_keys = <<>>
    /\ now = 0
    /\ calls = 0
    /\ pool_log = NoLog
    /\ pending = None
    /\ \E bytecode \in Programs, gas_limit \in GasLimitInputs,
          storage \in {None, Some(<<>>)} :
          /\ vm = Some(NewVm(bytecode, gas_limit, U64(1), U64(2), U64(1000),
                             U64(3), U64(4), storage))
          /\ last = [NoCall EXCEPT !.op = "run", !.outcome = "running",
                                   !.arg = Some(gas_limit)]

vmFrame ==
    <<accounts, overflow_checks, blocks, by_height, chain_head, chain_height,
      mempool, authorities, public_keys, now, calls, pool_log, pending>>

\* One turn of the loop of Vm::run: step()?
RunStep ==
    /\ vm # None
    /\ last.outcome = "running"
    /\ running(Unwrap(vm))
    /\ \E r \in {step(Unwrap(vm))} :
          /\ vm' = Some(r.vm)
          /\ last' = [last EXCEPT !.pre = vm,
                                  !.outcome = IF r.result = "ok" THEN "running"
                                              ELSE r.result]
    /\ UNCHANGED vmFrame

\* The loop of Vm::run has ended: Ok(ExecutionResult), the logs taken
RunReturn ==
    /\ vm # None
    /\ last.outcome = "running"
    /\ ~running(Unwrap(vm))
    /\ vm' = Some([Unwrap(vm) EXCEPT !.logs = <<>>])
    /\ last' = [last EXCEPT !.outcome = "ok",
                            !.returned = Some(ExecutionResult(Unwrap(vm)))]
    /\ UNCHANGED vmFrame

NextVm == RunStep \/ RunReturn

SpecVm == InitVm /\ [][NextVm]_vars

\* The loop of Vm::run goes on while it can
SpecVmFair == SpecVm /\ WF_vars(NextVm)

-----------------------------------------------------------------------------
(* Claims about the virtual machine, under SpecVm *)

\* The machine being run, the machine before its last step, and the opcode
\* that step fetched
Machine == Unwrap(vm)
Stepped == vm # None /\ last.op = "run" /\ last.pre # None
Before == Unwrap(last.pre)
Fetched == from_byte(code_at(Before, Before.pc))

\* C21: at every step of a run, the gas used and the gas remaining add up to
\* the gas limit the machine was built with, the gas remaining is never more
\* than it was before the step, and a step that fails with OutOfGas leaves
\* both counters as they were.
C21_GasIsConserved ==
    vm # None /\ last.op = "run" =>
        /\ Machine.gas.used + Machine.gas.remaining = Unwrap(last.arg)
        /\ Stepped =>
              /\ Machine.gas.remaining <= Before.gas.remaining
              /\ last.outcome = "OutOfGas" => Machine.gas = Before.gas

\* A run that has used gas is refused a charge it cannot pay, with gas left
C21_Witness ==
    /\ Stepped
    /\ last.outcome = "OutOfGas"
    /\ Machine.gas.used > 0
    /\ Machine.gas.remaining > 0

\* How a run has ended: by a halting opcode, by running off the end of the
\* code, by gas exhaustion, or by a fault
Faults_Vm ==
    {"InvalidOpcode", "DivisionByZero", "MemoryOverflow", "InvalidJump",
     "Reverted", "panic"}

Ended ==
    /\ vm # None
    /\ last.op = "run"
    /\ \/ last.outcome = "ok" /\ Machine.halted
       \/ last.outcome = "ok" /\ ~Machine.halted
          /\ Machine.pc >= Len(Machine.bytecode)
       \/ last.outcome = "OutOfGas"
       \/ last.outcome \in Faults_Vm

\* C22: whatever the code and the gas limit, run() comes to an end: by a
\* halting opcode, by running off the end of the code, by gas exhaustion or by
\* a fault.
C22_RunTerminates == <>Ended

\* A loop that jumps back has turned more than once and ran out of gas
C22_Witness ==
    /\ Stepped
    /\ last.outcome = "OutOfGas"
    /\ Fetched = Some("JUMP")
    /\ Machine.gas.used >= 2 * GasCosts_JUMP

\* The result run() returned, if it returned one
Result == Unwrap(last.returned)

\* C23: run() returns a result with success = true exactly when the last
\* instruction it executed was HALT or RET; a run that leaves the code without
\* one returns success = false, and a run ended by REVERT, by a fault or by
\* gas exhaustion returns an error and no result.
C23_SuccessIffHalted ==
    vm # None /\ last.op = "run" =>
        /\ last.returned # None =>
              (Result.success <=>
                  Stepped /\ Fetched \in {Some("HALT"), Some("RET")})
        /\ last.outcome \in Faults_Vm \cup {"OutOfGas"} => last.returned = None
        /\ Stepped /\ Fetched = Some("REVERT") /\ last.outcome # "OutOfGas" =>
              last.outcome = "Reverted"

\* A run that walked off the end of its code has returned success = false
C23_Witness ==
    /\ Stepped
    /\ last.returned # None
    /\ ~Result.success
    /\ Machine.pc >= Len(Machine.bytecode)
    /\ Fetched = Some("NOP")

\* The address register of the store that was the last step, as the full
\* 64 bits and one byte wider (so that address + 8 does not wrap), and the
\* number of bytes the store writes
StoreStepped ==
    /\ Stepped
    /\ Fetched \in {Some("STORE8"), Some("STORE64")}
    /\ last.outcome \notin {"OutOfGas", "panic"}
StoreAddress == reg(Before, decode_rr(Before)[1]) \o <<0>>
StoreWidth == IF Fetched = Some("STORE8") THEN 1 ELSE 8
StoreEnd == add_carry(StoreAddress, le_bytes(StoreWidth, 9), 0)
StoreBeyondMax == bytes_lt(le_bytes(MEMORY_MAX_SIZE, 9), StoreEnd)

\* C24: a STORE8 or STORE64 whose address register, read as the full 64-bit
\* value, points beyond the maximum memory size fails with MemoryOverflow and
\* writes nothing; any other store succeeds, the memory then covers the bytes
\* written, and the memory is never larger than the maximum.
C24_StoreBeyondMaxOverflows ==
    /\ vm # None => Machine.memory.len <= Machine.memory.max_size
    /\ StoreStepped =>
          IF StoreBeyondMax
          THEN /\ last.outcome = "MemoryOverflow"
               /\ Machine.memory = Before.memory
          ELSE /\ last.outcome = "running"
               /\ le_value(StoreEnd) <= Machine.memory.len

\* The instruction of the last step had its operands within the code, and the
\* gas that was left paid for it
Whole == Fetched # None /\ ~truncated(Before, Unwrap(Fetched))
CostOfFetched ==
    IF Fetched = Some("SSTORE")
    THEN sstore_cost(Before, slot_bytes(reg(Before, decode_rr(Before)[1])))
    ELSE gas_cost(Unwrap(Fetched))
Paid == Whole /\ CostOfFetched <= Before.gas.remaining

ZeroDivisor ==
    /\ Fetched \in {Some("DIV"), Some("MOD")}
    /\ reg(Before, decode_rrr(Before)[3]) = U64(0)

JumpTarget ==
    IF Fetched = Some("JUMP") THEN reg(Before, decode_r(Before))
    ELSE reg(Before, decode_rr(Before)[2])

JumpBeyondCode ==
    /\ \/ Fetched = Some("JUMP")
       \/ Fetched = Some("JUMPI") /\ reg(Before, decode_rr(Before)[1]) # U64(0)
    /\ ~bytes_lt(JumpTarget, U64(Len(Before.bytecode)))

\* C25: a byte that is no opcode fails with InvalidOpcode; an instruction that
\* costs more than the gas left fails with OutOfGas; with its gas paid, DIV or
\* MOD by zero fails with DivisionByZero and JUMP, or JUMPI taken, to a target
\* at or past the end of the code fails with InvalidJump; and a step that
\* failed in one of these ways left the registers, the memory, the storage and
\* the logs as they were.
C25_FaultsChangeNothing ==
    Stepped =>
        /\ Fetched = None => last.outcome = "InvalidOpcode"
        /\ Whole /\ ~Paid => last.outcome = "OutOfGas"
        /\ Paid /\ ZeroDivisor => last.outcome = "DivisionByZero"
        /\ Paid /\ JumpBeyondCode => last.outcome = "InvalidJump"
        /\ last.outcome \in {"InvalidOpcode", "OutOfGas", "DivisionByZero",
                             "InvalidJump"} =>
              /\ Machine.registers = Before.registers
              /\ Machine.memory = Before.memory
              /\ Machine.storage = Before.storage
              /\ Machine.logs = Before.logs

\* A division by zero has failed, with values in the registers
C25_Witness ==
    /\ Stepped
    /\ Paid
    /\ ZeroDivisor
    /\ last.outcome = "DivisionByZero"
    /\ reg(Machine, 0) # U64(0)

\* The MCOPY that was the last step: its three registers as the full 64 bits,
\* one byte wider so that no sum wraps
CopyStepped ==
    /\ Stepped
    /\ Fetched = Some("MCOPY")
    /\ last.outcome \notin {"OutOfGas", "panic"}
CopyDest == reg(Before, decode_rrr(Before)[1]) \o <<0>>
CopySrc == reg(Before, decode_rrr(Before)[2]) \o <<0>>
CopyLength == reg(Before, decode_rrr(Before)[3]) \o <<0>>
CopyWithin(start, limit) ==
    ~bytes_lt(le_bytes(limit, 9), add_carry(start, CopyLength, 0))

\* C28: MCOPY succeeds only if the source range (the registers read as full
\* 64-bit values) lies within the memory written so far and the destination
\* range within the maximum size; after a success the destination range holds
\* the bytes the source range held before the copy, overlapping or not, and
\* no other byte that was there has changed; after MemoryOverflow the memory
\* is as it was.
C28_CopyMovesSourceRange ==
    CopyStepped =>
        /\ last.outcome \in {"running", "MemoryOverflow"}
        /\ last.outcome = "MemoryOverflow" => Machine.memory = Before.memory
        /\ last.outcome = "running" =>
              /\ CopyWithin(CopySrc, Before.memory.len)
              /\ CopyWithin(CopyDest, MEMORY_MAX_SIZE)
              /\ \A i \in 0..(le_value(CopyLength) - 1) :
                    data_at(Machine.memory, le_value(CopyDest) + i)
                        = data_at(Before.memory, le_value(CopySrc) + i)
              /\ \A j \in 0..(Before.memory.len - 1) :
                    \/ j \in le_value(CopyDest)
                              ..(le_value(CopyDest) + le_value(CopyLength) - 1)
                    \/ data_at(Machine.memory, j) = data_at(Before.memory, j)

-----------------------------------------------------------------------------
(* The StateManager on its own: SpecState *)

MaxStateCalls == 2

\* u64 balances; a negative number n stands for 2^64 + n
BalanceInputs == {0, 50, 100, -50, -1}
AmountInputs == {0, 1, 100, -1}

\* Balances as StateManager::set_balance leaves them
InitState ==
    /\ \E b1 \in BalanceInputs, b2 \in BalanceInputs :
          accounts = [a \in Addrs |->
                         IF a = 1 THEN new_user(b1)
                         ELSE IF a = 2 THEN new_user(b2)
                         ELSE DefaultAccount]
    /\ overflow_checks = FALSE
    /\ InitChain
    /\ calls = 0
    /\ last = NoCall
    /\ pool_log = NoLog
    /\ pending = None
    /\ vm = None

\* StateManager::transfer
Transfer ==
    \E from \in Users, to \in Users, amount \in AmountInputs :
    \E r \in {transfer(accounts, from, to, amount)} :
        /\ calls < MaxStateCalls
        /\ calls' = calls + 1
        /\ accounts' = r.accounts
        /\ last' = [NoCall EXCEPT !.op = "transfer",
                                  !.arg = Some(<<from, to, amount>>),
                                  !.pre = Some(accounts),
                                  !.outcome = IF r.ok THEN "ok"
                                              ELSE "InsufficientBalance"]
        /\ UNCHANGED <<overflow_checks, chainVars, auxVars>>

NextState == Transfer

SpecState == InitState /\ [][NextState]_vars

\* The transfer that was the last call
Transferred == last.op = "transfer"
TransferFrom == Unwrap(last.arg)[1]
TransferTo == Unwrap(last.arg)[2]
TransferAmount == Unwrap(last.arg)[3]
BalanceBefore(a) == Unwrap(last.pre)[a].balance
BalanceNow(a) == accounts[a].balance

\* b is a more than amount, as u64 values and without wrapping
U64Above(a, amount, b) == b = a + amount /\ ~U64Lt(b, a)

\* C29: a transfer of more than the sender has fails with InsufficientBalance
\* and changes no account; any other transfer between two different accounts
\* takes exactly the amount from the sender and gives exactly the amount to
\* the recipient, and changes no other balance.
C29_TransferMovesAmount ==
    Transferred =>
        IF U64Lt(BalanceBefore(TransferFrom), TransferAmount)
        THEN /\ last.outcome = "InsufficientBalance"
             /\ accounts = Unwrap(last.pre)
        ELSE TransferFrom # TransferTo =>
             /\ last.outcome = "ok"
             /\ U64Above(BalanceNow(TransferFrom), TransferAmount,
                         BalanceBefore(TransferFrom))
             /\ U64Above(BalanceBefore(TransferTo), TransferAmount,
                         BalanceNow(TransferTo))
             /\ \A a \in Addrs \ {TransferFrom, TransferTo} :
                   BalanceNow(a) = BalanceBefore(a)

-----------------------------------------------------------------------------
(* Submitting, listing and proposing: SpecSubmit *)

\* A transaction the validator accepts besides TxA and TxB (a call that pays
\* more) and transactions it rejects: one for each rule and each kind
TxCall == Tx(1, 2, Some(Precomputed), 0, <<1>>, MIN_GAS + CALL_BYTE_GAS, 2, 2)
TxLowGas == Tx(0, 1, Some(2), 0, <<>>, MIN_GAS - 1, 1, 1)
TxLowGasCall == Tx(0, 1, Some(Precomputed), 0, <<1>>, MIN_GAS, 1, 1)
TxLowGasDeploy == Tx(0, 1, None, 0, <<1>>, MIN_GAS - 1, 1, 1)
TxEmptyDeploy == Tx(0, 1, None, 0, <<>>, MIN_GAS, 1, 1)

SubmitTxInputs ==
    {TxA, TxB, TxCall, TxZeroPrice, TxLowGas, TxLowGasCall, TxLowGasDeploy,
     TxEmptyDeploy}

MaxSubmitBlocks == 2

\* Blockchain::get_pending_transactions, when HashMap::values hands the
\* transactions out in the order `values`
get_pending_transactions(values, limit) == get_pending(values, limit)

\* Blockchain::get_latest_block
get_latest_block(st) == get_block_by_height(st, get_height(st))

\* BlockProposer::propose_block, at the time `time`
proposer_propose_block(auths, proposer, height, prev_hash, transactions, state_root, time) ==
    IF authority_at_height(auths, height) # Some(proposer)
    THEN [result |-> "NotTurn", block |-> None]
    ELSE [result |-> "ok",
          block |-> Some(signed(NewBlock(height, prev_hash, transactions,
                                         state_root, proposer, time),
                                proposer))]

\* Blockchain::propose_block, on the latest block `parent`
propose_block(parent, values, auths, proposer, time) ==
    proposer_propose_block(auths, proposer, parent.header.height + 1,
                           block_hash(parent),
                           get_pending(values, MAX_BLOCK_SIZE),
                           parent.header.state_root, time)

submitFrame ==
    <<accounts, overflow_checks, blocks, by_height, chain_head, chain_height,
      authorities, public_keys, now, calls, auxVars>>

\* Blockchain::submit_transaction, the mempool before it kept
SubmitAny ==
    \E tx \in SubmitTxInputs :
    \E r \in {submit_transaction(mempool, tx)} :
        /\ mempool' = r.mempool
        /\ last' = [NoCall EXCEPT !.op = "submit_transaction", !.tx = Some(tx),
                                  !.outcome = r.result,
                                  !.pre = Some(mempool)]
        /\ UNCHANGED submitFrame

\* Blockchain::get_pending_transactions
GetPendingTransactions ==
    \E limit \in {1, MAX_BLOCK_SIZE}, values \in values_orders(mempool) :
        /\ last' = [NoCall EXCEPT !.op = "get_pending_transactions",
                                  !.outcome = "ok", !.arg = Some(limit),
                                  !.txs = get_pending_transactions(values, limit)]
        /\ UNCHANGED <<mempool, submitFrame>>

\* Blockchain::propose_block
ProposeBlock ==
    \E proposer \in {1, 2}, values \in values_orders(mempool) :
    \E parent \in {get_latest_block(CurrentStore)} :
    \E r \in {IF parent = None
              THEN [result |-> "InvalidChainState", block |-> None]
              ELSE propose_block(Unwrap(parent), values, authorities, proposer,
                                 now)} :
        /\ last' = [NoCall EXCEPT !.op = "propose_block",
                                  !.outcome = r.result,
                                  !.block = r.block]
        /\ UNCHANGED <<mempool, submitFrame>>

\* An authority proposes a block and the node imports it
ImportProposed ==
    \E proposer \in {1, 2}, values \in values_orders(mempool) :
    \E parent \in {get_latest_block(CurrentStore)} :
        /\ parent # None
        /\ Cardinality(DOMAIN blocks) < MaxSubmitBlocks
        /\ \E r \in {propose_block(Unwrap(parent), values, authorities,
                                   proposer, now)} :
              /\ r.result = "ok"
              /\ ImportBlock(Unwrap(r.block))

NextSubmit ==
    SubmitAny \/ GetPendingTransactions \/ ProposeBlock \/ ImportProposed \/ Tick

SpecSubmit == Init /\ [][NextSubmit]_vars

\* The rules of structural validation: a gas price above 0, a gas limit of at
\* least the minimum for the kind of transaction, data in a deployment
MinimumGas(tx) ==
    IF tx.to # None /\ tx.data # <<>> THEN 21000 + 68 * Len(tx.data) ELSE 21000
Structural(tx) ==
    /\ tx.gas_price > 0
    /\ tx.gas_limit >= MinimumGas(tx)
    /\ tx.to = None => tx.data # <<>>
AllStructural(txs) == \A i \in 1..Len(txs) : Structural(txs[i])

SubmitRejected == last.op = "submit_transaction" /\ last.outcome # "ok"

\* C30: submit_transaction puts a transaction into the mempool only if it
\* keeps the rules of structural validation, and a rejected submission leaves
\* the mempool as it was; so every pooled transaction, every transaction
\* get_pending_transactions returns and every transaction of a proposed block
\* keeps the rules.
C30_OnlyValidatedArePooled ==
    /\ SubmitRejected => mempool = Unwrap(last.pre)
    /\ last.op = "submit_transaction" /\ mempool # Unwrap(last.pre) =>
          Structural(Unwrap(last.tx))
    /\ \A h \in DOMAIN mempool.transactions : Structural(mempool.transactions[h])
    /\ last.op = "get_pending_transactions" => AllStructural(last.txs)
    /\ last.op = "propose_block" /\ last.outcome = "ok" =>
          AllStructural(Unwrap(last.block).transactions)

\* A block proposed with two pooled transactions, one of them a call
C30_Witness ==
    /\ last.op = "propose_block"
    /\ last.outcome = "ok"
    /\ Len(Unwrap(last.block).transactions) = 2
    /\ TxCall \in {Unwrap(last.block).transactions[i] : i \in 1..2}

-----------------------------------------------------------------------------
(* The assembler: parser::Instruction and the two passes of the Compiler *)

\* Instruction: the mnemonic, the registers in the order of the fields, the
\* immediate (LoadI, AddI) or the name referenced (LoadILabel)
Inst(op, regs) == [op |-> op, regs |-> regs, value |-> None, label |-> None]
LoadI(dst, value) ==
    [op |-> "LOADI", regs |-> <<dst>>, value |-> Some(value), label |-> None]
LoadILabel(dst, label) ==
    [op |-> "LOADI", regs |-> <<dst>>, value |-> None, label |-> Some(label)]
AddI(dst, src, imm) ==
    [op |-> "ADDI", regs |-> <<dst, src>>, value |-> Some(imm), label |-> None]

\* Statement
Label(name) == [kind |-> "Label", name |-> name]
Instruction(inst) == [kind |-> "Instruction", inst |-> inst]
Const(name, value) == [kind |-> "Const", name |-> name, value |-> value]
Entry(name) == [kind |-> "Entry", name |-> name]

\* The arms of Instruction::byte_size and of emit_instruction
AsmNoOperands == {"HALT", "NOP", "RET", "REVERT"}
AsmSingleRegister ==
    {"JUMP", "CALL", "LOG", "MSIZE", "CALLER", "CALLVALUE", "ADDRESS",
     "BLOCKNUMBER", "TIMESTAMP", "GAS"}
AsmTwoRegisters ==
    {"JUMPI", "MOV", "NOT", "ISZERO", "LOAD8", "LOAD64", "STORE8", "STORE64",
     "SLOAD", "SSTORE"}
AsmThreeRegisters ==
    {"ADD", "SUB", "MUL", "DIV", "MOD", "AND", "OR", "XOR", "SHL", "SHR", "EQ",
     "NE", "LT", "GT", "LE", "GE", "MCOPY"}

\* A byte_size that gives ADDI the six bytes the machine reads
byte_size_short_addi(inst) ==
    IF inst.op \in AsmNoOperands THEN 1
    ELSE IF inst.op \in AsmSingleRegister \cup AsmTwoRegisters THEN 2
    ELSE IF inst.op \in AsmThreeRegisters THEN 3
    ELSE IF inst.op = "ADDI" THEN 6
    ELSE 10

\* Instruction::byte_size
byte_size(inst) ==
    IF inst.op \in AsmNoOperands THEN 1
    ELSE IF inst.op \in AsmSingleRegister \cup AsmTwoRegisters THEN 2
    ELSE IF inst.op \in AsmThreeRegisters THEN 3
    ELSE 10

\* mod opcodes of the compiler
opcodes ==
    [HALT |-> 0, NOP |-> 1, JUMP |-> 2, JUMPI |-> 3, CALL |-> 4, RET |-> 5,
     REVERT |-> 15,
     ADD |-> 16, SUB |-> 17, MUL |-> 18, DIV |-> 19, MOD |-> 20, ADDI |-> 21,
     AND |-> 32, OR |-> 33, XOR |-> 34, NOT |-> 35, SHL |-> 36, SHR |-> 37,
     EQ |-> 48, NE |-> 49, LT |-> 50, GT |-> 51, LE |-> 52, GE |-> 53,
     ISZERO |-> 54,
     LOAD8 |-> 64, LOAD64 |-> 65, STORE8 |-> 66, STORE64 |-> 67, MSIZE |-> 68,
     MCOPY |-> 69,
     SLOAD |-> 80, SSTORE |-> 81,
     LOADI |-> 112, MOV |-> 113,
     CALLER |-> 128, CALLVALUE |-> 129, ADDRESS |-> 130, BLOCKNUMBER |-> 131,
     TIMESTAMP |-> 132, GAS |-> 133,
     LOG |-> 240]

\* r << 4 on u8, and (a << 4) | b for b below 16
shl4(r) == (r * 16) % 256
packed(a, b) == shl4(a) + b

\* The lookup of LoadILabel: symbol_table.get(label).or_else(constants.get)
resolve(symbol_table, constants, label) ==
    IF MapGet(symbol_table, label) # None THEN MapGet(symbol_table, label)
    ELSE MapGet(constants, label)

\* Compiler::emit_instruction: the bytes pushed, or the error
emit_instruction(inst, symbol_table, constants) ==
    IF inst.op \in AsmNoOperands
    THEN [result |-> "ok", bytes |-> <<opcodes[inst.op]>>]
    ELSE IF inst.op \in AsmSingleRegister
    THEN [result |-> "ok", bytes |-> <<opcodes[inst.op], shl4(inst.regs[1])>>]
    ELSE IF inst.op \in AsmTwoRegisters
    THEN [result |-> "ok",
          bytes |-> <<opcodes[inst.op], packed(inst.regs[1], inst.regs[2])>>]
    ELSE IF inst.op \in AsmThreeRegisters
    THEN [result |-> "ok",
          bytes |-> <<opcodes[inst.op], packed(inst.regs[1], inst.regs[2]),
                      shl4(inst.regs[3])>>]
    ELSE IF inst.op = "ADDI"
    THEN [result |-> "ok",
          bytes |-> <<opcodes.ADDI, packed(inst.regs[1], inst.regs[2])>>
                    \o Unwrap(inst.value)]
    ELSE IF inst.value # None
    THEN [result |-> "ok",
          bytes |-> <<opcodes.LOADI, shl4(inst.regs[1])>> \o Unwrap(inst.value)]
    ELSE IF resolve(symbol_table, constants, Unwrap(inst.label)) = None
    THEN [result |-> "UndefinedLabel", label |-> Unwrap(inst.label)]
    ELSE [result |-> "ok",
          bytes |-> <<opcodes.LOADI, shl4(inst.regs[1])>>
                    \o U64(Unwrap(resolve(symbol_table, constants,
                                          Unwrap(inst.label))))]

\* Compiler::first_pass from statement i on: the tables, or the error
RECURSIVE first_pass_from(_, _, _, _, _)
first_pass_from(statements, i, address, symbol_table, constants) ==
    IF i > Len(statements)
    THEN [result |-> "ok", symbol_table |-> symbol_table,
          constants |-> constants]
    ELSE IF statements[i].kind = "Label"
    THEN IF MapGet(symbol_table, statements[i].name) # None
         THEN [result |-> "DuplicateLabel", label |-> statements[i].name,
               first_addr |-> symbol_table[statements[i].name]]
         ELSE first_pass_from(statements, i + 1, address,
                              MapPut(symbol_table, statements[i].name, address),
                              constants)
    ELSE IF statements[i].kind = "Instruction"
    THEN first_pass_from(statements, i + 1,
                         address + byte_size(statements[i].inst),
                         symbol_table, constants)
    ELSE IF statements[i].kind = "Const"
    THEN first_pass_from(statements, i + 1, address, symbol_table,
                         MapPut(constants, statements[i].name,
                                statements[i].value))
    ELSE first_pass_from(statements, i + 1, address, symbol_table, constants)

first_pass(program) == first_pass_from(program, 1, 0, <<>>, <<>>)

\* Compiler::second_pass from statement i on: the bytecode, or the error
RECURSIVE second_pass_from(_, _, _, _)
emitted(statements, i, bytecode, tables, emit) ==
    IF emit.result # "ok" THEN emit
    ELSE second_pass_from(statements, i + 1, bytecode \o emit.bytes, tables)

second_pass_from(statements, i, bytecode, tables) ==
    IF i > Len(statements) THEN [result |-> "ok", bytes |-> bytecode]
    ELSE IF statements[i].kind = "Instruction"
    THEN emitted(statements, i, bytecode, tables,
                 emit_instruction(statements[i].inst, tables.symbol_table,
                                  tables.constants))
    ELSE second_pass_from(statements, i + 1, bytecode, tables)

second_pass(program, tables) == second_pass_from(program, 1, <<>>, tables)

\* Compiler::compile
compiled(program, tables) ==
    IF tables.result # "ok" THEN tables ELSE second_pass(program, tables)

compile(program) == compiled(program, first_pass(program))

-----------------------------------------------------------------------------
(* Assembling a program and running what was assembled: SpecAsm *)

\* One instruction of every encoding between two loads and a LOG
Framed(inst) ==
    <<Instruction(LoadI(0, U64(6))), Instruction(LoadI(1, U64(3))),
      Instruction(inst), Instruction(Inst("LOG", <<2>>)),
      Instruction(Inst("HALT", <<>>))>>

AsmPrograms ==
    {<<>>,
     \* LOADI R0, 10; LOADI R1, 20; ADD R2, R0, R1; LOG R2; HALT
     <<Instruction(LoadI(0, U64(10))), Instruction(LoadI(1, U64(20))),
       Instruction(Inst("ADD", <<2, 0, 1>>)), Instruction(Inst("LOG", <<2>>)),
       Instruction(Inst("HALT", <<>>))>>,
     \* .entry main; main: LOADI R0, 10; LOADI R5, loop_end; JUMP R5;
     \* loop_end: HALT
     <<Entry("main"), Label("main"), Instruction(LoadI(0, U64(10))),
       Instruction(LoadILabel(5, "loop_end")), Instruction(Inst("JUMP", <<5>>)),
       Label("loop_end"), Instruction(Inst("HALT", <<>>))>>,
     \* a forward reference over instructions of every size
     <<Instruction(LoadILabel(5, "end")), Instruction(Inst("JUMP", <<5>>)),
       Instruction(Inst("ADD", <<0, 1, 2>>)), Instruction(AddI(0, 1, U64(7))),
       Instruction(Inst("NOP", <<>>)), Label("end"),
       Instruction(Inst("HALT", <<>>))>>,
     \* a backward reference, the jump not taken
     <<Instruction(Inst("NOP", <<>>)), Label("back"),
       Instruction(Inst("MOV", <<3, 4>>)), Instruction(LoadILabel(5, "back")),
       Instruction(Inst("JUMPI", <<0, 5>>)), Instruction(Inst("LOG", <<5>>)),
       Instruction(Inst("HALT", <<>>))>>,
     \* LOADI R5, undefined_label
     <<Instruction(LoadILabel(5, "undefined_label"))>>,
     \* main: HALT; main: HALT
     <<Label("main"), Instruction(Inst("HALT", <<>>)), Label("main"),
       Instruction(Inst("HALT", <<>>))>>,
     \* a label defined a second time, the first definition not at 0
     <<Instruction(LoadI(0, U64(1))), Label("twice"),
       Instruction(Inst("NOP", <<>>)), Label("twice"),
       Instruction(Inst("HALT", <<>>))>>,
     \* a label defined twice and a name that is nothing
     <<Label("twice"), Instruction(LoadILabel(0, "nowhere")), Label("twice"),
       Instruction(Inst("HALT", <<>>))>>,
     \* .const MAX_VALUE 100; LOADI R0, MAX_VALUE; HALT
     <<Const("MAX_VALUE", 100), Instruction(LoadILabel(0, "MAX_VALUE")),
       Instruction(Inst("HALT", <<>>))>>,
     \* a constant given after its use, and given twice
     <<Instruction(LoadILabel(0, "LATE")), Const("LATE", 7), Const("LATE", 9),
       Instruction(Inst("LOG", <<0>>)), Instruction(Inst("HALT", <<>>))>>,
     \* a name that is a label and a constant
     <<Const("both", 100), Instruction(Inst("NOP", <<>>)), Label("both"),
       Instruction(LoadILabel(0, "both")), Instruction(Inst("LOG", <<0>>)),
       Instruction(Inst("HALT", <<>>))>>,
     \* ADDI with an immediate of more than 32 bits
     <<Instruction(LoadI(0, U64(1))), Instruction(AddI(1, 0, Pow32Plus8)),
       Instruction(Inst("LOG", <<1>>)), Instruction(Inst("HALT", <<>>))>>,
     \* the context, memory and storage instructions
     <<Instruction(Inst("CALLER", <<1>>)), Instruction(Inst("CALLVALUE", <<2>>)),
       Instruction(Inst("ADDRESS", <<3>>)),
       Instruction(Inst("BLOCKNUMBER", <<4>>)),
       Instruction(Inst("TIMESTAMP", <<5>>)), Instruction(Inst("GAS", <<6>>)),
       Instruction(Inst("STORE64", <<0, 2>>)), Instruction(Inst("STORE8", <<3, 4>>)),
       Instruction(Inst("LOAD64", <<7, 0>>)), Instruction(Inst("LOAD8", <<8, 3>>)),
       Instruction(Inst("MSIZE", <<9>>)), Instruction(Inst("MCOPY", <<3, 0, 3>>)),
       Instruction(Inst("SSTORE", <<1, 2>>)), Instruction(Inst("SLOAD", <<10, 1>>)),
       Instruction(Inst("RET", <<>>))>>,
     <<Instruction(Inst("NOP", <<>>)), Instruction(Inst("REVERT", <<>>))>>}
    \cup {Framed(Inst(op, <<2, 0, 1>>)) : op \in AsmThreeRegisters \ {"MCOPY"}}
    \cup {Framed(Inst(op, <<2, 0>>)) : op \in {"NOT", "ISZERO", "MOV"}}
    \cup {Framed(Inst("CALL", <<r>>)) : r \in {0, 1}}
    \cup {Framed(AddI(2, 0, U64(5)))}

\* Compiler::compile, and Vm::new_with_context and Vm::set_storage on the
\* bytecode it made; last.arg keeps the program, last.returned what compile
\* returned
Assemble ==
    \E program \in AsmPrograms :
    \E r \in {compile(program)} :
        /\ last.op = "none"
        /\ last' = [NoCall EXCEPT !.op = "compile", !.arg = Some(program),
                                  !.outcome = IF r.result = "ok" THEN "running"
                                              ELSE r.result,
                                  !.returned = Some(r)]
        /\ vm' = IF r.result # "ok" THEN None
                 ELSE Some(NewVm(r.bytes, MaxGasLimit, U64(1), U64(2),
                                 U64(1000), U64(3), U64(4), Some(<<>>)))
        /\ UNCHANGED vmFrame

\* No source was given yet
InitAsm ==
    /\ accounts = [a \in Addrs |-> DefaultAccount]
    /\ overflow_checks = FALSE
    /\ InitChain
    /\ calls = 0
    /\ pool_log = NoLog
    /\ pending = None
    /\ vm = None
    /\ last = NoCall

NextAsm == Assemble \/ RunStep \/ RunReturn

SpecAsm == InitAsm /\ [][NextAsm]_vars

-----------------------------------------------------------------------------
(* Claims about the assembler, under SpecAsm *)

\* compile has just returned
Assembled == last.op = "compile" /\ last.pre = None /\ last.outcome # "ok"
Source == Unwrap(last.arg)
Output == Unwrap(last.returned)

\* The statements that are instructions, those that define `name` as a
\* label, and the values `name` is given by .const
InstructionsOf(program) ==
    {i \in 1..Len(program) : program[i].kind = "Instruction"}
DefinitionsOf(program, name) ==
    {i \in 1..Len(program) : program[i].kind = "Label" /\ program[i].name = name}
ConstantsOf(program, name) ==
    {program[i].value : i \in {j \in 1..Len(program) :
                                  /\ program[j].kind = "Const"
                                  /\ program[j].name = name}}

\* The sum of the byte_sizes of the instructions before statement i
RECURSIVE AddressOf(_, _)
AddressOf(program, i) ==
    IF i <= 1 THEN 0
    ELSE AddressOf(program, i - 1)
         + (IF program[i - 1].kind = "Instruction"
            THEN byte_size(program[i - 1].inst) ELSE 0)

First(S) == CHOOSE i \in S : \A j \in S : i <= j

\* The LOADIs that reference a name, the names that are defined twice, the
\* names referenced that are neither a label nor a constant
ReferencesOf(program) ==
    {i \in InstructionsOf(program) : program[i].inst.label # None}
NameAt(program, i) == Unwrap(program[i].inst.label)
TwiceIn(program) ==
    {program[i].name : i \in {j \in 1..Len(program) :
         /\ program[j].kind = "Label"
         /\ Cardinality(DefinitionsOf(program, program[j].name)) > 1}}
NowhereIn(program) ==
    {NameAt(program, i) : i \in {j \in ReferencesOf(program) :
         /\ DefinitionsOf(program, NameAt(program, j)) = {}
         /\ ConstantsOf(program, NameAt(program, j)) = {}}}

\* The bytes of the output that belong to statement i
EmittedFor(program, bytes, i) ==
    SubSeq(bytes, AddressOf(program, i) + 1,
           AddressOf(program, i) + byte_size(program[i].inst))

\* Every instruction is emitted as byte_size bytes that begin with its opcode
EmitsByteSize ==
    /\ Len(Output.bytes) = AddressOf(Source, Len(Source) + 1)
    /\ \A i \in InstructionsOf(Source) :
          /\ EmittedFor(Source, Output.bytes, i)[1] = to_byte(Source[i].inst.op)
          /\ \E e \in {emit_instruction(Source[i].inst, [n \in {} |-> 0],
                                        [n \in {NameAt(Source, j) :
                                                j \in ReferencesOf(Source)} |-> 0])} :
                Len(e.bytes) = byte_size(Source[i].inst)

\* A LOADI of a label carries the label's address, a LOADI of a name that is
\* only a constant carries its value
ResolvesNames ==
    \A i \in ReferencesOf(Source) :
        \E imm \in {SubSeq(EmittedFor(Source, Output.bytes, i), 3, 10)} :
            IF DefinitionsOf(Source, NameAt(Source, i)) # {}
            THEN imm = U64(AddressOf(Source,
                                     First(DefinitionsOf(Source, NameAt(Source, i)))))
            ELSE imm \in {U64(v) : v \in ConstantsOf(Source, NameAt(Source, i))}

FailsUndefined ==
    Output.result = "UndefinedLabel" /\ Output.label \in NowhereIn(Source)

FailsDuplicate ==
    /\ Output.result = "DuplicateLabel"
    /\ Output.label \in TwiceIn(Source)
    /\ Output.first_addr
           = AddressOf(Source, First(DefinitionsOf(Source, Output.label)))

Compiles == Output.result = "ok" /\ EmitsByteSize /\ ResolvesNames

AsmStepped == vm # None /\ last.op = "compile" /\ last.pre # None
StepSucceeded == AsmStepped /\ last.outcome \in {"running", "ok"}

\* The addresses at which the compiler put the instructions, and the
\* instruction it put at `address`
AddressesOf(program) ==
    {AddressOf(program, i) : i \in InstructionsOf(program)}
InstructionAt(program, address) ==
    program[CHOOSE i \in InstructionsOf(program) :
                AddressOf(program, i) = address].inst

\* The registers and the immediate Vm::step decodes at pc
DecodedRegisters(v, opcode) ==
    IF opcode \in OperandsRRR THEN decode_rrr(v)
    ELSE IF opcode \in OperandsRR THEN decode_rr(v)
    ELSE IF opcode \in OperandsR THEN <<decode_r(v)>>
    ELSE <<>>
DecodedImmediate(v, opcode) ==
    IF opcode = "LOADI" THEN decode_imm64(v) ELSE as_u64(decode_imm32(v))

\* The step went on to the next instruction: no jump, no halt
FellThrough(v, inst) ==
    /\ inst.op \notin {"JUMP", "HALT", "RET", "REVERT"}
    /\ inst.op = "JUMPI" => reg(v, inst.regs[1]) = U64(0)

\* C26: the machine runs an assembled program instruction by instruction:
\* what it fetches is at an address where the compiler put an instruction,
\* it decodes the registers and the immediate the compiler encoded, and a
\* step that does not jump advances pc by the instruction's byte_size.
C26_MachineFollowsAssembler ==
    /\ vm # None /\ last.op = "compile" /\ last.outcome = "running"
          /\ running(Machine) =>
          Machine.pc \in AddressesOf(Source)
    /\ StepSucceeded /\ Before.pc \in AddressesOf(Source) =>
          \E inst \in {InstructionAt(Source, Before.pc)} :
              /\ Fetched = Some(inst.op)
              /\ DecodedRegisters(Before, inst.op) = inst.regs
              /\ inst.value # None =>
                    DecodedImmediate(Before, inst.op) = Unwrap(inst.value)
              /\ FellThrough(Before, inst) =>
                    Machine.pc = Before.pc + byte_size(inst)

-----------------------------------------------------------------------------
(* Further claims about the virtual machine, under SpecVm *)

\* The kinds of VmError
VmErrors ==
    {"OutOfGas", "InvalidOpcode", "DivisionByZero", "MemoryOverflow",
     "InvalidJump", "Reverted"}

\* C38: whatever the bytes of the code and the gas limit, run() goes on or
\* returns an ExecutionResult or one of the VmErrors: no step reads an
\* operand byte at or behind the end of the code.
C38_RunReturnsResultOrError ==
    /\ last.op = "run" => last.outcome \in {"running", "ok"} \cup VmErrors
    /\ Stepped /\ Fetched # None /\ last.outcome \notin {"OutOfGas"} =>
          Before.pc + operand_bytes(Unwrap(Fetched)) < Len(Before.bytecode)

\* What the storage of the machine v holds at `key`: nothing without a
\* backend
SlotOf(v, key) ==
    IF v.storage = None THEN Zero32 ELSE backend_sload(Unwrap(v.storage), key)
SlotsOf(v) == IF v.storage = None THEN {} ELSE DOMAIN Unwrap(v.storage)

\* The SSTORE or SLOAD that was the last step, its operands decoded
StorageStepped(opcode) ==
    Stepped /\ Fetched = Some(opcode) /\ last.outcome # "panic"
StorageKey(i) == slot_bytes(reg(Before, decode_rr(Before)[i]))
SstoreCharge ==
    IF SlotOf(Before, StorageKey(1)) = Zero32 THEN 20000 ELSE 5000

\* C39: SSTORE charges 20000 gas when the slot holds zero before the write
\* and 5000 when it holds something else, and writes the slot only if the
\* charge succeeds; with a backend the slots keep what was stored last and a
\* SLOAD returns what the slot of its key holds; with no backend every SLOAD
\* returns 0 and nothing is stored.
C39_StorageChargesAndKeeps ==
    /\ StorageStepped("SSTORE") =>
          IF Before.gas.remaining >= SstoreCharge
          THEN /\ last.outcome = "running"
               /\ Machine.gas.used = Before.gas.used + SstoreCharge
               /\ Before.storage # None =>
                     /\ SlotOf(Machine, StorageKey(1))
                            = slot_bytes(reg(Before, decode_rr(Before)[2]))
                     /\ \A key \in SlotsOf(Machine) \ {StorageKey(1)} :
                           SlotOf(Machine, key) = SlotOf(Before, key)
               /\ Before.storage = None => Machine.storage = None
          ELSE /\ last.outcome = "OutOfGas"
               /\ Machine.storage = Before.storage
    /\ StorageStepped("SLOAD") /\ last.outcome = "running" =>
          /\ slot_bytes(reg(Machine, decode_rr(Before)[1]))
                 = SlotOf(Before, StorageKey(2))
          /\ Before.storage = None =>
                reg(Machine, decode_rr(Before)[1]) = U64(0)
    /\ Stepped /\ Fetched # Some("SSTORE") => Machine.storage = Before.storage

\* A slot that held 5 was written again for 5000 gas and then read as 5
C39_Witness ==
    /\ StorageStepped("SLOAD")
    /\ last.outcome = "running"
    /\ reg(Machine, decode_rr(Before)[1]) = U64(5)
    /\ Machine.gas.used = 2 + 20000 + 5000 + 100

-----------------------------------------------------------------------------
(* MerkleTree and its proofs: SpecMerkle *)

\* MerkleTree::new: the levels, the leaves first
RECURSIVE levels_from(_)
levels_from(levels) ==
    IF Len(levels[Len(levels)]) > 1
    THEN levels_from(Append(levels, merkle_level(levels[Len(levels)])))
    ELSE levels

MerkleTree(leaves) ==
    IF leaves = <<>> THEN [levels |-> <<<<ZERO>>>>]
    ELSE [levels |-> levels_from(<<leaves>>)]

\* MerkleTree::root
root(tree) == tree.levels[Len(tree.levels)][1]

\* MerkleTree::leaf_count
leaf_count(tree) == Len(tree.levels[1])

\* The loop of MerkleTree::proof over the levels below the root, from level k
\* on; idx counts from 0
RECURSIVE proof_from(_, _, _, _)
proof_from(tree, k, idx, proof) ==
    IF k >= Len(tree.levels) THEN proof
    ELSE proof_from(tree, k + 1, idx \div 2,
             [proof EXCEPT
                 !.siblings = Append(@,
                     IF (IF idx % 2 = 0 THEN idx + 1 ELSE idx - 1)
                            < Len(tree.levels[k])
                     THEN tree.levels[k][(IF idx % 2 = 0 THEN idx + 1
                                          ELSE idx - 1) + 1]
                     ELSE tree.levels[k][idx + 1]),
                 !.directions = Append(@, idx % 2 = 0)])

\* MerkleTree::proof
proof(tree, index) ==
    IF index >= leaf_count(tree) THEN None
    ELSE Some(proof_from(tree, 1, index,
                         [leaf |-> tree.levels[1][index + 1],
                          siblings |-> <<>>, directions |-> <<>>]))

\* The loop of verify_proof from sibling k on
RECURSIVE verify_from(_, _, _)
verify_from(p, k, current) ==
    IF k > Len(p.siblings) \/ k > Len(p.directions) THEN current
    ELSE verify_from(p, k + 1,
                     IF p.directions[k] THEN hash_concat(current, p.siblings[k])
                     ELSE hash_concat(p.siblings[k], current))

\* verify_proof
verify_proof(r, p) == verify_from(p, 1, p.leaf) = r

MaxLeaves == 5

\* Leaf hashes: the hashes of transactions, none of them a node of a tree
LeafAtoms == {<<"leaf", n>> : n \in 1..5}
LeafLists ==
    UNION {[1..k -> {<<"leaf", n>> : n \in 1..3}] : k \in 0..MaxLeaves}
    \cup {l \in UNION {[1..k -> LeafAtoms] : k \in 0..5} : ~HasDuplicates(l)}

\* MerkleTree::new(leaves) has built the tree, kept in last.pre; an index
\* is about to be asked for
InitMerkle ==
    /\ accounts = [a \in Addrs |-> DefaultAccount]
    /\ overflow_checks = FALSE
    /\ InitChain
    /\ calls = 0
    /\ pool_log = NoLog
    /\ pending = None
    /\ vm = None
    /\ \E leaves \in LeafLists, index \in 0..(MaxLeaves + 1) :
          last = [NoCall EXCEPT !.op = "new",
                                !.arg = Some(<<leaves, index>>),
                                !.pre = Some(MerkleTree(leaves))]

\* MerkleTree::proof(index)
Proof ==
    /\ last.op = "new"
    /\ last' = [last EXCEPT !.op = "proof",
                            !.outcome = "ok",
                            !.returned = proof(Unwrap(last.pre),
                                               Unwrap(last.arg)[2])]
    /\ UNCHANGED <<accounts, overflow_checks, chainVars, calls, auxVars>>

NextMerkle == Proof

SpecMerkle == InitMerkle /\ [][NextMerkle]_vars

\* The call that was made
Proved == last.op = "proof"
Leaves == Unwrap(last.arg)[1]
Index == Unwrap(last.arg)[2]
Tree == Unwrap(last.pre)

\* C31: for every list of leaf hashes, proof(i) returns a proof exactly when
\* i is below the number of leaves given; the proof returned is of the leaf
\* at i and verifies against the root of the tree, and that root is the
\* merkle_root of the list.
C31_ProofsVerify ==
    Proved =>
        /\ last.returned # None <=> Index < Len(Leaves)
        /\ root(Tree) = merkle_root(Leaves)
        /\ last.returned # None =>
              /\ verify_proof(root(Tree), Unwrap(last.returned))
              /\ Index < Len(Leaves) =>
                    Unwrap(last.returned).leaf = Leaves[Index + 1]

\* C40: with a hash that has no collisions and leaves that are no nodes, no
\* other list of leaf hashes without duplicates has the merkle_root of a
\* list without duplicates: the root in a header and the duplicate check of
\* validate_block_structure fix the list of transactions.
C40_RootFixesList ==
    Proved /\ ~HasDuplicates(Leaves) /\ Len(Leaves) <= 5 =>
        \A other \in {l \in UNION {[1..k -> LeafAtoms] : k \in 0..5} :
                          ~HasDuplicates(l)} :
            merkle_root(other) = merkle_root(Leaves) => other = Leaves

\* A list of three leaves, whose root is also the root of a list of four
\* with a duplicate
C40_Witness ==
    /\ Proved
    /\ ~HasDuplicates(Leaves)
    /\ Len(Leaves) = 3
    /\ merkle_root(Leaves) = merkle_root(Append(Leaves, Leaves[3]))

-----------------------------------------------------------------------------
(* Conservation of value, under SpecExec *)

\* The sum of the balances of the accounts in S
RECURSIVE SumOfBalances(_, _)
SumOfBalances(accts, S) ==
    IF S = {} THEN 0
    ELSE SumOfBalances(accts, S \ {CHOOSE a \in S : TRUE})
         + accts[CHOOSE a \in S : TRUE].balance

\* The fee of the receipt of the last call: gas_used * gas_price
LastFee == LastReceipt.gas_used * LastTx.gas_price

\* C32: execute_transaction conserves value: whatever the transaction, the
\* balances after it add up to what they added up to before, less the fee
\* gas_used * gas_price.
C32_ValueIsConserved ==
    last.op = "execute_transaction" /\ last.outcome = "ok" =>
        SumOfBalances(accounts, Addrs)
            = SumOfBalances(LastPre, Addrs) - LastFee

-----------------------------------------------------------------------------
(* ChainStore by init_genesis and append_block alone: SpecAppend *)

NextAppend == InitGenesis \/ AppendBlock \/ WriteStep \/ Return

SpecAppend == InitStore /\ [][NextAppend]_vars

\* Every stored height from 1 on names a block whose prev_hash is the hash
\* stored one height below, so that the chain goes down to a block at height 0
LinkedToGenesis ==
    \A h \in DOMAIN by_height :
        h >= 1 =>
            /\ h - 1 \in DOMAIN by_height
            /\ blocks[by_height[h]].header.prev_hash = by_height[h - 1]

\* C37: append_block succeeds only for a block whose height is the current
\* height plus one and whose prev_hash is the hash of the current head,
\* otherwise it returns an error and leaves the stored blocks, the head and
\* the height as they were; so in every store reached by init_genesis and
\* append_block calls each block at a height h >= 1 has the hash of the block
\* at height h - 1 as prev_hash, down to a genesis block at height 0.
C37_AppendKeepsChainLinked ==
    /\ Returned("append_block") =>
           LET block == Unwrap(last.block)
               pre == Unwrap(last.pre)
           IN /\ last.outcome = "ok" =>
                     /\ block.header.height = get_height(pre) + 1
                     /\ Some(block.header.prev_hash) = pre.head
              /\ last.outcome # "ok" => CurrentStore = pre
    /\ pending = None => LinkedToGenesis

-----------------------------------------------------------------------------
(* Claims about the order of the pooled transactions *)

\* The pooled transactions of sender s
PooledOf(s) ==
    {mempool.transactions[h] : h \in {k \in DOMAIN mempool.transactions :
                                          mempool.transactions[k].from = s}}

\* C35: get_next_for_sender(s) returns the pooled transaction of s with the
\* lowest nonce (and None when s has no pooled transaction), in whatever
\* order the transactions of s were added and removed. Under SpecPool.
C35_NextHasLowestNonce ==
    last.op = "get_next_for_sender" =>
        LET s == Unwrap(last.arg)
            next == Unwrap(last.returned)
        IN IF PooledOf(s) = {} THEN next = None
           ELSE /\ next # None
                /\ Unwrap(next) \in PooledOf(s)
                /\ \A tx \in PooledOf(s) : Unwrap(next).nonce <= tx.nonce

\* C34: get_pending(limit) returns at most limit transactions, in descending
\* order of gas price, every sender's transactions in increasing order of
\* nonce, and a transaction only behind every pooled transaction of its
\* sender with a lower nonce. Under SpecSubmit.
C34_PendingRespectsNonces ==
    last.op = "get_pending_transactions" =>
        LET txs == last.txs
        IN /\ Len(txs) <= Unwrap(last.arg)
           /\ \A i, j \in DOMAIN txs :
                  i < j => txs[i].gas_price >= txs[j].gas_price
           /\ \A i, j \in DOMAIN txs :
                  (i < j /\ txs[i].from = txs[j].from) =>
                      txs[i].nonce <= txs[j].nonce
           /\ \A j \in DOMAIN txs :
                  \A tx \in PooledOf(txs[j].from) :
                      tx.nonce < txs[j].nonce =>
                          \E i \in 1..(j - 1) : txs[i] = tx

-----------------------------------------------------------------------------
(* The mempool under any configuration, cleared too: SpecPoolOps *)

\* The limits of a MempoolConfig, none allowed included
ConfigCaps == {0, 1, 2}

\* Mempool::clear
mempool_clear(mp) ==
    [mp EXCEPT !.transactions = <<>>, !.by_sender = <<>>, !.tx_hashes = {}]

\* Mempool::stats
stats(mp) ==
    [total_transactions |-> Cardinality(DOMAIN mp.transactions),
     unique_senders |-> Cardinality(DOMAIN mp.by_sender),
     capacity |-> mp.config.max_transactions]

\* Mempool::with_config on its own, with any limits
InitPoolOps ==
    /\ accounts = [a \in Addrs |-> DefaultAccount]
    /\ overflow_checks = FALSE
    /\ blocks = <<>>
    /\ by_height = <<>>
    /\ chain_head = None
    /\ chain_height = None
    /\ \E max_transactions \in ConfigCaps, max_per_account \in ConfigCaps :
          mempool = NewMempool(max_transactions, max_per_account)
    /\ authorities = <<>>
    /\ public_keys = <<>>
    /\ now = 0
    /\ calls = 0
    /\ last = NoCall
    /\ pool_log = NoLog
    /\ pending = None
    /\ vm = None

\* Mempool::clear
Clear ==
    /\ mempool' = mempool_clear(mempool)
    /\ pool_log' = [NoLog EXCEPT !.only_adds = FALSE]
    /\ last' = [NoCall EXCEPT !.op = "clear", !.outcome = "ok"]
    /\ UNCHANGED poolFrame

NextPoolOps == Add \/ Remove \/ RemoveBatch \/ Clear

SpecPoolOps == InitPoolOps /\ [][NextPoolOps]_vars

\* How often h occurs in the queue q
RECURSIVE Occurrences(_, _)
Occurrences(q, h) ==
    IF q = <<>> THEN 0
    ELSE (IF Head(q) = h THEN 1 ELSE 0) + Occurrences(Tail(q), h)

\* The senders with a pooled transaction
PooledSenders ==
    {mempool.transactions[h].from : h \in DOMAIN mempool.transactions}

\* The global and the per-sender limit are kept
WithinCaps ==
    /\ Cardinality(DOMAIN mempool.transactions) <= mempool.config.max_transactions
    /\ \A s \in Addrs : Cardinality(PooledOf(s)) <= mempool.config.max_per_account

\* tx_hashes, transactions and by_sender hold the same hashes, each once in
\* the queue of its sender and in no other queue
IndexesAgree ==
    /\ mempool.tx_hashes = DOMAIN mempool.transactions
    /\ \A h \in DOMAIN mempool.transactions :
           /\ tx_hash(mempool.transactions[h]) = h
           /\ mempool.transactions[h].from \in DOMAIN mempool.by_sender
           /\ Occurrences(mempool.by_sender[mempool.transactions[h].from], h) = 1
    /\ \A s \in DOMAIN mempool.by_sender :
           \A i \in DOMAIN mempool.by_sender[s] :
               /\ mempool.by_sender[s][i] \in DOMAIN mempool.transactions
               /\ mempool.transactions[mempool.by_sender[s][i]].from = s

\* No sender has an empty queue
NoEmptyQueue == \A s \in DOMAIN mempool.by_sender : mempool.by_sender[s] # <<>>

\* C36: after any sequence of add, remove, remove_batch and clear, failed
\* calls included, the mempool holds at most max_transactions transactions
\* and at most max_per_account of a sender, its three indexes hold the same
\* hashes, each exactly once in its sender's queue, and no queue is empty,
\* so that stats().unique_senders is the number of senders with a pooled
\* transaction.
C36_PoolIndexesAgree ==
    /\ WithinCaps
    /\ IndexesAgree
    /\ NoEmptyQueue
    /\ stats(mempool).unique_senders = Cardinality(PooledSenders)

-----------------------------------------------------------------------------
(* Proposed blocks, under SpecSubmit *)

\* C33: the block propose_block returns for the authority scheduled at the
\* next height, its public key registered, is accepted by import_block when
\* it is imported next, whatever transactions accepted by submit_transaction
\* the mempool holds.
C33_ProposedBlockIsImported ==
    last.op = "import_block" => last.outcome = "ok"

====
